---- MODULE Spec2Model ----
(***************************************************************************)
(* Block classification and instanced-mesh batching pipeline of the voxel  *)
(* world viewer: WorldLoader.processBlocks, init (filter, wood fold,       *)
(* grouping, template loads, emission, draw-order sort),                   *)
(* TextureLoader.loadBlock and createBlock, WorldLoader.loadSpawnChunk     *)
(* with its fallbacks, and the wheel-driven camera animation.              *)
(*                                                                         *)
(* Block type names and group keys are modelled as sequences of the words  *)
(* that the JavaScript strings join with '_' ("stone_slab" is              *)
(* <<"stone","slab">>).  Joining with '_' is injective on sequences of     *)
(* non-empty words without '_', so equality of word sequences is equality  *)
(* of the strings, and a template literal `${a}_${b}` is a concatenation.  *)
(* Substring tests (String.includes) are evaluated on words; the           *)
(* vocabulary used below has no word that contains another pattern word as *)
(* a proper substring, except where noted.                                 *)
(***************************************************************************)
EXTENDS Integers, Sequences, FiniteSets, TLC

(***************************************************************************)
(* JavaScript values that the code distinguishes with === and truthiness.  *)
(***************************************************************************)
UNDEF == "undefined"
JTrue == "bool:true"
JFalse == "bool:false"
STrue == "str:true"
SFalse == "str:false"

Truthy(v) == v \notin {UNDEF, JFalse}

(***************************************************************************)
(* String helpers on word sequences.                                       *)
(***************************************************************************)
\* the pattern words that a vocabulary word ends with without being equal to
\* them
Suffixes(word) ==
    CASE word = "tallgrass" -> {"grass"}
      [] word = "seagrass" -> {"grass"}
      [] word = "sunflower" -> {"flower"}
      [] word = "cornflower" -> {"flower"}
      [] word = "cobweb" -> {"web"}
      [] word = "trapdoor" -> {"door"}
      [] OTHER -> {}

WordHas(word, pat) == word = pat \/ pat \in Suffixes(word)

\* the pattern words that a vocabulary word starts with without being equal
\* to them
Prefixes(word) ==
    CASE word = "flowering" -> {"flower"}
      [] OTHER -> {}

\* type.includes(w) for a pattern w without '_'
HasWord(t, w) == \E i \in 1..Len(t) : WordHas(t[i], w) \/ w \in Prefixes(t[i])

\* type.includes('_' + w): a word that is not the first one starts with w
HasUWord(t, w) == \E i \in 2..Len(t) : t[i] = w \/ w \in Prefixes(t[i])

\* type.includes('_' + w + '_'): w is an interior word
HasInnerWord(t, w) == \E i \in 2..(Len(t) - 1) : t[i] = w

\* type.includes(w + '_'): a word that is not the last one ends with w
HasWordU(t, w) == \E i \in 1..(Len(t) - 1) : WordHas(t[i], w)

\* type.includes(a + '_' + b)
HasPair(t, a, b) == \E i \in 1..(Len(t) - 1) : WordHas(t[i], a) /\ t[i + 1] = b

\* type.endsWith('_' + w)
EndsWithUWord(t, w) == Len(t) >= 2 /\ t[Len(t)] = w

(***************************************************************************)
(* Block records.  Every record carries every field; an absent property is *)
(* UNDEF (or a cleared has* flag for object- or number-valued properties;  *)
(* the empty word sequence for the material string).                       *)
(***************************************************************************)
Blank ==
    [type |-> <<"stone">>, x |-> 0, y |-> 0, z |-> 0,
     hasType |-> TRUE, hasY |-> TRUE,
     isUpperSlab |-> UNDEF, extraUpper |-> UNDEF,
     hasData |-> FALSE, data |-> 0,
     hasStairData |-> FALSE, sdFacing |-> UNDEF, sdHalf |-> UNDEF, sdShape |-> UNDEF,
     facing |-> UNDEF, half |-> UNDEF, shape |-> UNDEF,
     hasTrapdoorState |-> FALSE, tdOpen |-> UNDEF, tdHalf |-> UNDEF, tdFacing |-> UNDEF,
     color |-> UNDEF,
     hasConnections |-> FALSE, connections |-> <<>>,
     hanging |-> UNDEF, material |-> <<>>,
     hasOriginalData |-> FALSE, originalData |-> 0, originalType |-> UNDEF,
     isDoublePlantBottom |-> FALSE, isDoublePlantTop |-> FALSE]

PosKey(x, y, z) == <<x, y, z>>

(***************************************************************************)
(* WorldLoader.processBlocks                                               *)
(***************************************************************************)
\* the fixed 8-entry table of the generic slab branch
SlabTable ==
    <<  <<"stone", "slab">>, <<"sandstone", "slab">>, <<"oak", "slab">>,
        <<"cobblestone", "slab">>, <<"brick", "slab">>,
        <<"stone", "brick", "slab">>, <<"nether", "brick", "slab">>,
        <<"quartz", "slab">>  >>

MaterialBitsMask == 8

\* a mask of two bits instead of three
MaterialBitsTwo(d) == d % 4

\* block.data & 0x7 on a 32-bit integer (two's complement: the residue mod 8)
MaterialBits(d) == d % MaterialBitsMask

SlabTypeOf(b) ==
    IF b.hasData THEN SlabTable[MaterialBits(b.data) + 1] ELSE <<"stone", "slab">>

IsDoublePlantType(t) == HasPair(t, "double", "plant")
IsSlabType(t) == HasUWord(t, "slab") \/ t = <<"slab">>
IsStairType(t) == HasUWord(t, "stairs") \/ t = <<"stairs">>
IsTrapdoorType(t) == HasUWord(t, "trapdoor") \/ t = <<"trapdoor">>
IsColoredType(t) == HasWord(t, "concrete") \/ HasWord(t, "wool")

\* the default kind whatever the type names
PlantTypeDefault(t) == "grass"

\* parts = type.split('_'); parts.length > 2 ? parts[2] : 'grass'
PlantType(t) == IF Len(t) > 2 THEN t[3] ELSE "grass"

ProcessedIsUpper(b) ==
    IF b.isUpperSlab = JTrue \/ b.extraUpper = JTrue THEN JTrue ELSE JFalse

\* the records pushed for one block that is not skipped
ProcessOne(b) ==
    IF IsDoublePlantType(b.type) THEN
        << [b EXCEPT !.type = <<"double", "plant", PlantType(b.type), "bottom">>,
                     !.isDoublePlantBottom = TRUE],
           [Blank EXCEPT !.type = <<"double", "plant", PlantType(b.type), "top">>,
                         !.x = b.x, !.y = b.y + 1, !.z = b.z,
                         !.isDoublePlantTop = TRUE] >>
    ELSE IF IsSlabType(b.type) THEN
        IF b.type = <<"slab">> THEN
            << [b EXCEPT !.type = SlabTypeOf(b),
                         !.isUpperSlab = ProcessedIsUpper(b),
                         !.hasOriginalData = b.hasData, !.originalData = b.data,
                         !.originalType = "slab"] >>
        ELSE
            << [b EXCEPT !.isUpperSlab = ProcessedIsUpper(b),
                         !.hasOriginalData = b.hasData, !.originalData = b.data] >>
    ELSE IF IsStairType(b.type) THEN
        << [b EXCEPT !.type = IF b.type = <<"stairs">> THEN <<"spruce", "stairs">> ELSE b.type,
                     !.facing = b.sdFacing, !.half = b.sdHalf, !.shape = b.sdShape,
                     !.originalType = IF b.type = <<"stairs">> THEN "stairs" ELSE b.originalType] >>
    ELSE IF IsTrapdoorType(b.type) THEN
        IF b.hasTrapdoorState THEN << b >>
        ELSE << [b EXCEPT !.hasTrapdoorState = TRUE, !.tdOpen = JFalse,
                          !.tdHalf = "bottom", !.tdFacing = "north"] >>
    ELSE IF IsColoredType(b.type) THEN
        << [b EXCEPT !.color = IF b.color = UNDEF THEN "white" ELSE b.color] >>
    ELSE << b >>

\* the loop over blocks: nulled is the set of positions whose blockMap entry
\* has been set to null by an earlier double plant
RECURSIVE ProcessFrom(_, _, _, _)
ProcessFrom(blocks, i, nulled, out) ==
    IF i > Len(blocks) THEN out
    ELSE LET b == blocks[i] IN
         IF PosKey(b.x, b.y, b.z) \in nulled
         THEN ProcessFrom(blocks, i + 1, nulled, out)
         ELSE ProcessFrom(blocks, i + 1,
                  IF IsDoublePlantType(b.type)
                  THEN nulled \cup {PosKey(b.x, b.y + 1, b.z)} ELSE nulled,
                  out \o ProcessOne(b))

ProcessBlocks(blocks) == ProcessFrom(blocks, 1, {}, <<>>)

(***************************************************************************)
(* init: height/distance filter and wood fold                              *)
(***************************************************************************)
minRenderHeight == -1
maxRenderHeight == 189
centerX == (117 + 139) \div 2
centerZ == (18 + 36) \div 2
MaxDistance == 75

\* the filter callback: Math.sqrt(dx*dx + dz*dz) > 75 compared on the squares
PassesFilter(b) ==
    /\ ~(b.y < minRenderHeight \/ b.y > maxRenderHeight)
    /\ ~((b.x - centerX) * (b.x - centerX) + (b.z - centerZ) * (b.z - centerZ)
            > MaxDistance * MaxDistance)

WoodSpecies ==
    {"oak", "birch", "acacia", "jungle", "mangrove", "cherry", "crimson", "warped"}

\* positions where /(oak|birch|dark_oak|acacia|jungle|mangrove|cherry|crimson|warped)_/ matches
WoodMatches(t) ==
    {i \in 1..Len(t) :
        \/ t[i] \in WoodSpecies /\ i < Len(t)
        \/ t[i] = "dark" /\ i + 1 < Len(t) /\ t[i + 1] = "oak"}

Min(S) == CHOOSE m \in S : \A n \in S : m <= n

\* type.replace(regex, 'spruce_') replaces the leftmost match
WoodFold(t) ==
    IF WoodMatches(t) = {} THEN t
    ELSE LET i == Min(WoodMatches(t))
             w == IF t[i] = "dark" THEN 2 ELSE 1
         IN  SubSeq(t, 1, i - 1) \o <<"spruce">> \o SubSeq(t, i + w, Len(t))

PlainFold(t) ==
    IF t = <<"planks">> THEN <<"spruce", "planks">>
    ELSE IF t = <<"log">> \/ t = <<"wood">> THEN <<"stripped", "spruce", "log">>
    ELSE t

MaterialFold(m) ==
    IF HasUWord(m, "wood") \/ m = <<"wood">> THEN <<"spruce", "wood">> ELSE m

\* the map callback
MapBlock(b) ==
    IF b.type = <<"cobweb">> \/ b.type = <<"web">>
    THEN [b EXCEPT !.type = <<"web">>, !.x = b.x - centerX, !.z = b.z - centerZ]
    ELSE [b EXCEPT !.type = PlainFold(WoodFold(b.type)),
                   !.x = b.x - centerX, !.z = b.z - centerZ,
                   !.material = MaterialFold(b.material)]

RECURSIVE FilterMap(_)
FilterMap(bs) ==
    IF bs = <<>> THEN <<>>
    ELSE (IF PassesFilter(Head(bs)) THEN <<MapBlock(Head(bs))>> ELSE <<>>)
         \o FilterMap(Tail(bs))

(***************************************************************************)
(* init: grouping pass (first pass over the filtered blocks)               *)
(***************************************************************************)
NoOptions ==
    [isUpperSlab |-> UNDEF, color |-> UNDEF,
     facing |-> UNDEF, half |-> UNDEF, shape |-> UNDEF,
     hasTrapdoorState |-> FALSE, tdOpen |-> UNDEF, tdHalf |-> UNDEF, tdFacing |-> UNDEF,
     hasConnections |-> FALSE, connections |-> <<>>,
     hanging |-> UNDEF, material |-> <<>>]

\* Array.prototype.sort() on direction names (code-unit order)
DirRank(d) ==
    CASE d = "east" -> 1 [] d = "north" -> 2 [] d = "south" -> 3
      [] d = "up" -> 4 [] d = "west" -> 5 [] OTHER -> 6

RECURSIVE SortDirs(_)
SortDirs(S) ==
    IF S = {} THEN <<>>
    ELSE LET d == CHOOSE e \in S : \A f \in S : DirRank(e) <= DirRank(f)
         IN  <<d>> \o SortDirs(S \ {d})

\* the connected directions in the insertion order of the map, unsorted
ConnectionsKeyUnsorted(conns) ==
    LET kept == SelectSeq(conns, LAMBDA e : e[2] = STrue)
    IN  [i \in 1..Len(kept) |-> kept[i][1]]

\* Object.entries(c).filter(([_, v]) => v === 'true').map(([d, _]) => d).sort()
\* (an object has each key once, so the filtered names form a set)
ConnectionsKey(conns) ==
    SortDirs({conns[i][1] : i \in {j \in 1..Len(conns) : conns[j][2] = STrue}})

\* block.isUpperSlab ?? block.extra_data?.isUpperSlab ?? false
SlabIsUpper(b) ==
    IF b.isUpperSlab # UNDEF THEN b.isUpperSlab
    ELSE IF b.extraUpper # UNDEF THEN b.extraUpper ELSE JFalse

TakesSlabBranch(b) == b.isUpperSlab # UNDEF \/ b.extraUpper # UNDEF
TakesColoredBranch(b) == HasWord(b.type, "concrete") \/ HasWord(b.type, "wool")
TakesStairBranch(b) == HasUWord(b.type, "stairs") \/ b.type = <<"stairs">>
TakesTrapdoorBranch(b) == HasUWord(b.type, "trapdoor") \/ b.type = <<"trapdoor">>

OrElse(v, d) == IF Truthy(v) THEN v ELSE d

TrapdoorIsOpen(b) == b.hasTrapdoorState /\ b.tdOpen \in {JTrue, STrue}
TrapdoorIsTop(b) == b.hasTrapdoorState /\ b.tdHalf = "top"
TrapdoorFacing(b) == IF b.hasTrapdoorState THEN OrElse(b.tdFacing, "north") ELSE "north"

\* a key that also carries the block's column
GroupKeyAtPosition(b) == b.type \o <<ToString(b.x)>>

\* the key under which the block is grouped
GroupKey(b) ==
    IF TakesSlabBranch(b) THEN
        b.type \o <<"slab", IF Truthy(SlabIsUpper(b)) THEN "upper" ELSE "lower">>
    ELSE IF TakesColoredBranch(b) THEN b.type
    ELSE IF TakesStairBranch(b) THEN
        b.type \o <<"facing", OrElse(b.facing, "east"), "half", OrElse(b.half, "bottom")>>
    ELSE IF TakesTrapdoorBranch(b) THEN
        b.type \o <<TrapdoorFacing(b),
                    IF TrapdoorIsOpen(b) THEN "open" ELSE "closed",
                    IF TrapdoorIsTop(b) THEN "top" ELSE "bottom">>
    ELSE b.type
         \o (IF b.hasConnections
             THEN <<"connections">> \o
                  (IF ConnectionsKey(b.connections) = <<>> THEN <<"none">>
                   ELSE ConnectionsKey(b.connections))
             ELSE <<>>)
         \o (IF b.hanging # UNDEF
             THEN <<IF Truthy(b.hanging) THEN "hanging" ELSE "standing">>
             ELSE <<>>)

\* the options stored when the block creates its group
GroupOptions(b) ==
    IF TakesSlabBranch(b) THEN [NoOptions EXCEPT !.isUpperSlab = SlabIsUpper(b)]
    ELSE IF TakesColoredBranch(b) THEN [NoOptions EXCEPT !.color = OrElse(b.color, "white")]
    ELSE IF TakesStairBranch(b) THEN
        [NoOptions EXCEPT !.facing = OrElse(b.facing, "east"),
                          !.half = OrElse(b.half, "bottom"),
                          !.shape = OrElse(b.shape, "straight")]
    ELSE IF TakesTrapdoorBranch(b) THEN
        \* { ...block, rotation, isTop, isOpen, key }
        [isUpperSlab |-> b.isUpperSlab, color |-> b.color,
         facing |-> b.facing, half |-> b.half, shape |-> b.shape,
         hasTrapdoorState |-> b.hasTrapdoorState, tdOpen |-> b.tdOpen,
         tdHalf |-> b.tdHalf, tdFacing |-> b.tdFacing,
         hasConnections |-> b.hasConnections, connections |-> b.connections,
         hanging |-> b.hanging, material |-> b.material]
    ELSE [NoOptions EXCEPT !.isUpperSlab = b.isUpperSlab,
                           !.hasTrapdoorState = b.hasTrapdoorState,
                           !.tdOpen = b.tdOpen, !.tdHalf = b.tdHalf,
                           !.tdFacing = b.tdFacing,
                           !.hasConnections = b.hasConnections,
                           !.connections = b.connections,
                           !.hanging = b.hanging, !.material = b.material]

\* the slab, colored and stair branches push a position of their own
PushesInBranch(b) ==
    TakesSlabBranch(b) \/ TakesColoredBranch(b) \/ TakesStairBranch(b)

\* the position pushed inside the branch: slabs and colored blocks subtract
\* the center again, stairs push the block position
BranchPosition(b) ==
    IF TakesSlabBranch(b) \/ TakesColoredBranch(b)
    THEN <<b.x - centerX, b.y, b.z - centerZ>>
    ELSE <<b.x, b.y, b.z>>

\* the positions one block adds to its group: the branch push (if any) and
\* the push after the if/else chain
PositionsPushed(b) ==
    (IF PushesInBranch(b) THEN <<BranchPosition(b)>> ELSE <<>>) \o << <<b.x, b.y, b.z>> >>

GroupIndex(groups, key) ==
    IF \E i \in 1..Len(groups) : groups[i].key = key
    THEN CHOOSE i \in 1..Len(groups) : groups[i].key = key
    ELSE 0

\* one iteration of the loop: instanceGroups is a Map, kept in insertion order
AddToGroups(groups, b) ==
    LET key == GroupKey(b)
        i == GroupIndex(groups, key)
        gs == IF i = 0
              THEN Append(groups, [key |-> key, type |-> b.type,
                                   options |-> GroupOptions(b),
                                   positions |-> <<>>, count |-> 0])
              ELSE groups
        j == GroupIndex(gs, key)
    IN  [gs EXCEPT ![j].positions = @ \o PositionsPushed(b),
                   ![j].count = @ + Len(PositionsPushed(b))]

RECURSIVE GroupBlocks(_, _)
GroupBlocks(bs, groups) ==
    IF bs = <<>> THEN groups
    ELSE GroupBlocks(Tail(bs), AddToGroups(groups, Head(bs)))

(***************************************************************************)
(* Templates.  A template records which builder made it, what the builder  *)
(* read from its options, whether one of its materials is transparent, and *)
(* whether it is the magenta fallback mesh or carries the placeholder      *)
(* texture.  kind is "Group" for a THREE.Group and "Mesh" for a THREE.Mesh. *)
(***************************************************************************)
NoTemplate ==
    [kind |-> "none", builder |-> "none", type |-> <<>>, category |-> "n/a",
     isUpper |-> "n/a", color |-> "n/a", facing |-> "n/a", conns |-> {},
     tdOpen |-> "n/a", tdHalf |-> "n/a", tdFacing |-> "n/a", hanging |-> "n/a",
     transparent |-> FALSE, fallback |-> FALSE, placeholder |-> FALSE,
     materials |-> <<>>]

Tmpl(kind, builder, type, transparent) ==
    [NoTemplate EXCEPT !.kind = kind, !.builder = builder, !.type = type,
                       !.transparent = transparent]

Resolved(t) == [status |-> "resolved", template |-> t]
Rejected == [status |-> "rejected", template |-> NoTemplate]

\* blockFactory createFallbackMesh / the catch blocks that build a mesh with
\* createFallbackMaterial
FallbackMesh(type) == [Tmpl("Mesh", "fallback", type, FALSE) EXCEPT !.fallback = TRUE]

\* an entry of BLOCK_PROPERTIES; numbers are kept as the literals of the source
NoProperties ==
    [category |-> UNDEF, transparent |-> UNDEF, alphaCutoff |-> UNDEF,
     opacity |-> UNDEF, tintColor |-> UNDEF, color |-> UNDEF]

Foliage ==
    [NoProperties EXCEPT !.transparent = JTrue, !.alphaCutoff = "0.5",
                         !.tintColor = "0x4CAF50"]

\* BLOCK_PROPERTIES[type] || {} for the types of the model
Properties(t) ==
    CASE t \in { <<"oak", "leaves">>, <<"spruce", "leaves">>,
                 <<"flowering", "azalea", "leaves">>, <<"leaves">>,
                 <<"tallgrass">>, <<"fern">>, <<"grass">> } -> Foliage
      [] t = <<"glass">> ->
            [NoProperties EXCEPT !.transparent = JTrue, !.alphaCutoff = "0.1"]
      [] t = <<"water">> ->
            [NoProperties EXCEPT !.transparent = JTrue, !.opacity = "0.7",
                                 !.tintColor = "0x3F76E4"]
      [] t = <<"seagrass">> ->
            [NoProperties EXCEPT !.transparent = JTrue, !.alphaCutoff = "0.5",
                                 !.tintColor = "0x3F76E4"]
      [] t = <<"poppy">> ->
            [NoProperties EXCEPT !.transparent = JTrue, !.alphaCutoff = "0.5"]
      [] t = <<"grass", "block">> ->
            [NoProperties EXCEPT !.category = "tbs", !.tintColor = "0x4CAF50"]
      [] t = <<"dirt", "path">> ->
            [NoProperties EXCEPT !.category = "tbs", !.tintColor = "0xBDB76B"]
      [] t = <<"cactus">> ->
            [NoProperties EXCEPT !.category = "tbs", !.transparent = JTrue,
                                 !.alphaCutoff = "0.5"]
      [] t \in { <<"hay", "block">>, <<"log">> } ->
            [NoProperties EXCEPT !.category = "directional"]
      [] t = <<"concrete">> -> [NoProperties EXCEPT !.category = "uniform"]
      [] OTHER -> NoProperties

\* BLOCK_PROPERTIES[type].transparent for the types of the model
CatalogTransparent(t) == Properties(t).transparent = JTrue

\* BLOCK_PROPERTIES[type].category || 'uniform'
CatalogCategory(t) == OrElse(Properties(t).category, "uniform")

(***************************************************************************)
(* Textures and materials.  A texture is named by the face it was loaded   *)
(* for; "placeholder" is the generated magenta/black checkerboard and      *)
(* UNDEF a texture argument that is undefined.                             *)
(***************************************************************************)
NoTextures ==
    [texture |-> UNDEF, topTexture |-> UNDEF, bottomTexture |-> UNDEF,
     sideTexture |-> UNDEF, endTexture |-> UNDEF]

\* loadBlockTextures(blockType, category); texOK: the loads succeed
loadBlockTextures(category, texOK) ==
    IF ~texOK THEN [NoTextures EXCEPT !.texture = "placeholder"]
    ELSE CASE category = "tbs" ->
                [NoTextures EXCEPT !.topTexture = "top", !.bottomTexture = "bottom",
                                   !.sideTexture = "side"]
           [] category = "directional" ->
                [NoTextures EXCEPT !.endTexture = "end", !.sideTexture = "side"]
           [] OTHER -> [NoTextures EXCEPT !.texture = "texture"]

\* new THREE.MeshStandardMaterial({...}) with the defaults of three.js for
\* the parameters that are not passed
StandardMaterial ==
    [map |-> UNDEF, transparent |-> FALSE, alphaTest |-> "0.0", opacity |-> "1.0",
     color |-> "0xffffff"]

createUniformMaterial(texture, properties) ==
    [StandardMaterial EXCEPT !.map = texture,
                             !.transparent = Truthy(properties.transparent),
                             !.alphaTest = OrElse(properties.alphaCutoff, "0.0"),
                             !.opacity = OrElse(properties.opacity, "1.0"),
                             !.color = OrElse(properties.color, "0xffffff")]

createLeafMaterial(texture, properties) ==
    [StandardMaterial EXCEPT !.map = texture,
                             !.transparent = TRUE,
                             !.alphaTest = OrElse(properties.alphaCutoff, "0.5"),
                             !.color = OrElse(properties.tintColor, "0x2E8B57")]

\* the material that createDirectionalMaterial and createMultiFaceMaterial
\* build for each texture
FaceMaterial(texture, properties) ==
    [StandardMaterial EXCEPT !.map = texture,
                             !.transparent = Truthy(properties.transparent),
                             !.alphaTest = OrElse(properties.alphaCutoff, "0.0")]

createDirectionalMaterial(sideTexture, endTexture, properties) ==
    LET sideMaterial == FaceMaterial(sideTexture, properties)
        endMaterial == FaceMaterial(endTexture, properties)
    IN  <<sideMaterial, sideMaterial, endMaterial, endMaterial, sideMaterial, sideMaterial>>

Tinted(material, tintColor) == [material EXCEPT !.color = tintColor]

\* the tint reaching every material, the bottom one included
createMultiFaceMaterialTintAll(topTexture, bottomTexture, sideTexture, properties, blockType) ==
    LET tint(m) == IF Truthy(properties.tintColor) THEN Tinted(m, properties.tintColor) ELSE m
        topMaterial == tint(FaceMaterial(topTexture, properties))
        bottomMaterial == tint(FaceMaterial(bottomTexture, properties))
        sideMaterial == tint(FaceMaterial(sideTexture, properties))
    IN  <<sideMaterial, sideMaterial, topMaterial, bottomMaterial, sideMaterial, sideMaterial>>

createMultiFaceMaterial(topTexture, bottomTexture, sideTexture, properties, blockType) ==
    LET tinted == Truthy(properties.tintColor)
        topMaterial ==
            IF tinted THEN Tinted(FaceMaterial(topTexture, properties), properties.tintColor)
            ELSE FaceMaterial(topTexture, properties)
        bottomMaterial == FaceMaterial(bottomTexture, properties)
        sideMaterial ==
            IF tinted /\ blockType = <<"grass", "block">>
            THEN Tinted(FaceMaterial(sideTexture, properties), properties.tintColor)
            ELSE FaceMaterial(sideTexture, properties)
    IN  <<sideMaterial, sideMaterial, topMaterial, bottomMaterial, sideMaterial, sideMaterial>>

SixFaces(material) == <<material, material, material, material, material, material>>

isChainBlock(t) == t = <<"chain">> \/ EndsWithUWord(t, "chain")
isDoorBlock(t) == t = <<"door">> \/ (EndsWithUWord(t, "door") /\ ~HasWord(t, "trapdoor"))
isGrindstoneBlock(t) == t = <<"grindstone">>
isSlabBlock(t) == HasUWord(t, "slab") \/ t = <<"slab">>
isStairBlock(t) == HasUWord(t, "stairs") \/ t = <<"stairs">>
isWallBlock(t) == HasUWord(t, "wall") \/ t = <<"wall">>
isFenceBlock(t) == HasUWord(t, "fence") /\ ~HasWord(t, "gate")
isTrapdoorBlock(t) == HasUWord(t, "trapdoor") \/ t = <<"trapdoor">>
isLanternBlock(t) == HasWord(t, "lantern") /\ t # <<"jack", "o", "lantern">>
isDoublePlant(t) == HasPair(t, "double", "plant") \/ HasUWord(t, "top") \/ HasUWord(t, "bottom")

plantTypes ==
    {"plant", "flower", "sapling", "mushroom", "wheat", "berry", "fern",
     "seagrass", "kelp", "bamboo", "vine", "lily", "rose", "dandelion",
     "tulip", "allium", "orchid", "poppy", "cornflower"}

plantPairs == { <<"dead", "bush">>, <<"double", "plant">>, <<"wither", "rose">> }

excludedBlocks ==
    { <<"grass", "block">>, <<"grass", "path">>, <<"dirt", "path">>, <<"mycelium">>,
      <<"podzol">>, <<"farmland">>, <<"farmland", "moist">>, <<"mushroom", "stem">>,
      <<"brown", "mushroom", "block">> }

isPlantBlock(t) ==
    IF t \in excludedBlocks THEN FALSE
    ELSE IF HasWord(t, "grass")
    THEN t = <<"grass">> \/ t = <<"tallgrass">>
         \/ (Len(t) >= 2 /\ t[1] = "grass" /\ ~HasWord(t, "path"))
    ELSE \/ \E w \in plantTypes : HasWord(t, w)
         \/ \E p \in plantPairs : HasPair(t, p[1], p[2])

\* the directions whose arm the wall and fence builders add
ArmDirections == {"north", "east", "south", "west"}

BuiltConnections(o) ==
    IF o.hasConnections
    THEN {d \in ArmDirections :
            \E i \in 1..Len(o.connections) :
                o.connections[i][1] = d /\ o.connections[i][2] = STrue}
    ELSE {}

\* the category createBlock ends up with on its generic path
GenericCategory(t) ==
    IF HasUWord(t, "log") THEN "directional"
    ELSE IF HasWord(t, "leaves") THEN "leaves"
    ELSE CatalogCategory(t)

\* the material switch of createBlock on the category
BlockMaterials(t, texOK) ==
    LET category == GenericCategory(t)
        properties == Properties(t)
        textures == loadBlockTextures(category, texOK)
    IN  CASE category = "uniform" ->
                SixFaces([StandardMaterial EXCEPT
                            !.map = textures.texture,
                            !.transparent = Truthy(properties.transparent),
                            !.alphaTest = OrElse(properties.alphaCutoff, "0.0"),
                            !.opacity = OrElse(properties.opacity, "1.0"),
                            !.color = OrElse(properties.color, "0xffffff")])
          [] category = "tbs" ->
                createMultiFaceMaterial(textures.topTexture, textures.bottomTexture,
                                        textures.sideTexture, properties, t)
          [] category = "directional" ->
                createDirectionalMaterial(textures.sideTexture, textures.endTexture,
                                          properties)
          [] category = "leaves" -> SixFaces(createLeafMaterial(textures.texture, properties))
          [] OTHER -> SixFaces(createUniformMaterial(textures.texture, properties))

(***************************************************************************)
(* createBlock(blockType, options) with texOK the outcome of the texture   *)
(* loads of this build (TRUE: all succeed, FALSE: they fail).              *)
(***************************************************************************)
createStairBlock(t, o, texOK) ==
    IF texOK
    THEN Resolved([Tmpl("Mesh", "stair", t, FALSE) EXCEPT !.facing = OrElse(o.facing, "east")])
    \* the catch block calls createFallbackMesh, which stairFactory.js neither
    \* defines nor imports: the ReferenceError rejects the promise
    ELSE Rejected

createBlock(t, o, texOK) ==
    IF isChainBlock(t) THEN
        Resolved(IF texOK THEN Tmpl("Mesh", "chain", t, TRUE) ELSE FallbackMesh(t))
    ELSE IF HasWord(t, "torch") THEN Resolved(Tmpl("Mesh", "torch", t, TRUE))
    ELSE IF isDoorBlock(t) THEN Resolved(Tmpl("Mesh", "door", t, TRUE))
    ELSE IF isGrindstoneBlock(t) THEN
        Resolved(IF texOK
                 THEN [Tmpl("Group", "grindstone", t, FALSE)
                          EXCEPT !.facing = OrElse(o.facing, "north")]
                 ELSE FallbackMesh(t))
    ELSE IF HasWord(t, "concrete") \/ HasWord(t, "wool") THEN
        Resolved(IF texOK
                 THEN [Tmpl("Mesh", "colored", t, FALSE)
                          EXCEPT !.color = OrElse(o.color, "white")]
                 ELSE FallbackMesh(t))
    ELSE IF isSlabBlock(t) THEN
        Resolved([Tmpl("Mesh", "slab", t, CatalogTransparent(t))
                    EXCEPT !.isUpper = IF Truthy(o.isUpperSlab) THEN "upper" ELSE "lower",
                           !.placeholder = ~texOK])
    ELSE IF isStairBlock(t) THEN createStairBlock(t, o, texOK)
    ELSE IF isWallBlock(t) THEN
        Resolved([Tmpl("Group", "wall", t, CatalogTransparent(t))
                    EXCEPT !.conns = BuiltConnections(o), !.placeholder = ~texOK])
    ELSE IF isFenceBlock(t) THEN
        Resolved([Tmpl("Group", "fence", t, CatalogTransparent(t))
                    EXCEPT !.conns = BuiltConnections(o), !.placeholder = ~texOK])
    ELSE IF isTrapdoorBlock(t) THEN
        Resolved([Tmpl("Group", "trapdoor", t, FALSE)
                    EXCEPT !.tdOpen = IF o.hasTrapdoorState /\ o.tdOpen \in {JTrue, STrue}
                                      THEN "open" ELSE "closed",
                           !.tdHalf = IF o.hasTrapdoorState THEN OrElse(o.tdHalf, "bottom")
                                      ELSE "bottom",
                           !.tdFacing = IF o.hasTrapdoorState THEN OrElse(o.tdFacing, "north")
                                        ELSE "north",
                           !.placeholder = ~texOK])
    ELSE IF isLanternBlock(t) THEN
        Resolved(IF texOK
                 THEN [Tmpl("Group", "lantern", t, TRUE)
                          EXCEPT !.hanging = IF Truthy(o.hanging) THEN "hanging" ELSE "standing"]
                 ELSE FallbackMesh(t))
    ELSE IF isDoublePlant(t) THEN
        Resolved([Tmpl("Group", "doublePlant", t, TRUE) EXCEPT !.placeholder = ~texOK])
    ELSE IF isPlantBlock(t) THEN
        Resolved([Tmpl("Group", "plant", t, TRUE) EXCEPT !.placeholder = ~texOK])
    ELSE
        Resolved([Tmpl("Mesh", "generic", t,
                       IF GenericCategory(t) = "leaves" THEN TRUE ELSE CatalogTransparent(t))
                    EXCEPT !.category = GenericCategory(t), !.placeholder = ~texOK,
                           !.materials = BlockMaterials(t, texOK)])

(***************************************************************************)
(* TextureLoader.loadBlock(blockType, options)                             *)
(***************************************************************************)
\* the branch of loadBlock that serves the call
LoadPath(t, o) ==
    IF t = <<"cobweb">> \/ t = <<"web">> THEN "cross"
    ELSE IF HasWord(t, "button") THEN "button"
    ELSE IF isSlabBlock(t) THEN "slab"
    ELSE IF HasUWord(t, "trapdoor") \/ t = <<"trapdoor">> THEN "trapdoor"
    ELSE IF HasWord(t, "lantern") THEN "lantern"
    ELSE IF (HasUWord(t, "wall") \/ t = <<"wall">>
             \/ (HasUWord(t, "fence") /\ ~HasWord(t, "gate"))) /\ o.hasConnections
         THEN "connected"
    ELSE IF t = <<"door">> \/ (EndsWithUWord(t, "door") /\ ~HasWord(t, "trapdoor")) THEN "door"
    ELSE IF HasWord(t, "concrete") \/ HasWord(t, "wool") THEN "colored"
    ELSE "generic"

\* the options loadBlock hands to createBlock
OptionsPassed(t, o) ==
    CASE LoadPath(t, o) = "slab" ->
            [NoOptions EXCEPT !.isUpperSlab = IF Truthy(o.isUpperSlab) THEN o.isUpperSlab ELSE JFalse]
      [] LoadPath(t, o) = "trapdoor" ->
            IF o.hasTrapdoorState
            THEN [NoOptions EXCEPT !.hasTrapdoorState = TRUE, !.tdOpen = o.tdOpen,
                                   !.tdHalf = o.tdHalf, !.tdFacing = o.tdFacing,
                                   !.material = o.material]
            ELSE [NoOptions EXCEPT !.hasTrapdoorState = TRUE, !.tdOpen = JFalse,
                                   !.tdHalf = "bottom", !.tdFacing = "north",
                                   !.material = o.material]
      [] LoadPath(t, o) = "lantern" ->
            [NoOptions EXCEPT !.hanging = IF Truthy(o.hanging) THEN o.hanging ELSE JFalse]
      [] LoadPath(t, o) = "connected" ->
            [NoOptions EXCEPT !.hasConnections = TRUE, !.connections = o.connections]
      [] OTHER -> o

\* the blockCache key that the branch reads and writes
BlockCacheKey(t, o) ==
    LET p == OptionsPassed(t, o) IN
    CASE LoadPath(t, o) = "slab" ->
            t \o <<"slab", IF Truthy(p.isUpperSlab) THEN "upper" ELSE "lower">>
      [] LoadPath(t, o) = "trapdoor" ->
            t \o <<IF Truthy(p.tdOpen) THEN "open" ELSE "closed", p.tdHalf, p.tdFacing>>
              \o (IF p.material # <<>> THEN <<"material">> \o p.material ELSE <<>>)
      [] LoadPath(t, o) = "lantern" ->
            t \o <<IF Truthy(p.hanging) THEN "hanging" ELSE "standing">>
      [] LoadPath(t, o) = "connected" ->
            t \o (IF ConnectionsKey(o.connections) = <<>> THEN <<"no", "connections">>
                  ELSE ConnectionsKey(o.connections))
      [] LoadPath(t, o) = "colored" -> t \o <<OrElse(o.color, "white")>>
      [] OTHER -> t

\* the branches that look their key up in blockCache before building
\* (the colored branch first looks up the bare block type as well)
ReadsCache(t, o) ==
    LoadPath(t, o) \in {"slab", "trapdoor", "lantern", "connected", "colored", "generic"}

CacheHit(t, o, cache) ==
    /\ ReadsCache(t, o)
    /\ \/ BlockCacheKey(t, o) \in DOMAIN cache
       \/ LoadPath(t, o) = "colored" /\ t \in DOMAIN cache

CachedBlock(t, o, cache) ==
    IF LoadPath(t, o) = "colored" /\ t \in DOMAIN cache THEN cache[t]
    ELSE cache[BlockCacheKey(t, o)]

\* what a call that misses the cache builds
LoadBuild(t, o, texOK) ==
    CASE LoadPath(t, o) = "cross" ->
            IF texOK THEN Resolved(Tmpl("Mesh", "cross", t, TRUE)) ELSE Rejected
      [] LoadPath(t, o) = "button" ->
            IF texOK THEN Resolved(Tmpl("Mesh", "button", t, FALSE)) ELSE Rejected
      [] LoadPath(t, o) = "door" -> Resolved(Tmpl("Mesh", "door", t, TRUE))
      [] LoadPath(t, o) = "colored" ->
            IF texOK
            THEN Resolved([Tmpl("Mesh", "colored", t, FALSE)
                             EXCEPT !.color = OrElse(o.color, "white")])
            ELSE Rejected
      [] OTHER -> createBlock(t, OptionsPassed(t, o), texOK)

\* whether the build result is stored in blockCache: the generic branch
\* returns a Group as is, without caching it
StoresInCache(t, o, r) ==
    /\ r.status = "resolved"
    /\ \/ LoadPath(t, o) \in {"slab", "trapdoor", "lantern", "connected", "colored"}
       \/ LoadPath(t, o) = "generic" /\ r.template.kind # "Group"

(***************************************************************************)
(* init: template cache key, emission and draw-order sort                  *)
(***************************************************************************)
\* the cacheKey init computes for a group, in both of its loops
TemplateCacheKey(g) ==
    IF \/ HasWord(g.type, "trapdoor")
       \/ HasUWord(g.type, "stairs") \/ g.type = <<"stairs">>
       \/ HasUWord(g.type, "slab") \/ g.type = <<"slab">>
    THEN g.key ELSE g.type

\* a promise without the catch handler: it takes the outcome of loadBlock
LoadPromiseStateUncaught(r) == IF r.status = "rejected" THEN "rejected" ELSE "fulfilled"

\* the promise pushed to loadingPromises is loadBlock(...).then(...).catch(...):
\* the catch handler logs, so the promise is fulfilled whatever loadBlock did
LoadPromiseState(r) == "fulfilled"

\* resuming as soon as one load has settled
AnySettled(ls) == \E i \in 1..Len(ls) : ls[i].state # "pending"

\* await Promise.all(loadingPromises) resumes once no load is pending
AllSettled(ls) == \A i \in 1..Len(ls) : ls[i].state # "pending"

\* a comparator that looks at the slab flag before the leaf flag
SortCompareSlabFirst(a, b) ==
    IF a.isTransparent /\ ~b.isTransparent THEN 1
    ELSE IF ~a.isTransparent /\ b.isTransparent THEN -1
    ELSE IF a.isSlab /\ ~b.isSlab THEN 1
    ELSE IF ~a.isSlab /\ b.isSlab THEN -1
    ELSE IF a.isLeaf /\ ~b.isLeaf THEN 1
    ELSE IF ~a.isLeaf /\ b.isLeaf THEN -1
    ELSE 0

\* the comparator of instancedMeshes.sort
SortCompare(a, b) ==
    IF a.isTransparent /\ ~b.isTransparent THEN 1
    ELSE IF ~a.isTransparent /\ b.isTransparent THEN -1
    ELSE IF a.isLeaf /\ ~b.isLeaf THEN 1
    ELSE IF ~a.isLeaf /\ b.isLeaf THEN -1
    ELSE IF a.isSlab /\ ~b.isSlab THEN 1
    ELSE IF ~a.isSlab /\ b.isSlab THEN -1
    ELSE 0

\* Array.prototype.sort is stable: an element goes behind every element that
\* does not compare greater than it
InsertSorted(sorted, e) ==
    LET k == Cardinality({i \in 1..Len(sorted) : SortCompare(sorted[i], e) <= 0})
    IN  SubSeq(sorted, 1, k) \o <<e>> \o SubSeq(sorted, k + 1, Len(sorted))

RECURSIVE SortMeshes(_, _)
SortMeshes(ms, sorted) ==
    IF ms = <<>> THEN sorted
    ELSE SortMeshes(Tail(ms), InsertSorted(sorted, Head(ms)))

MeshPart(part) == [part |-> part, isMesh |-> TRUE, isLight |-> FALSE]
LightPart(part) == [part |-> part, isMesh |-> FALSE, isLight |-> TRUE]

\* group.children of a Group template, in the order of the group.add calls;
\* the builders other than the lantern's and the grindstone's add meshes
\* only, which one mesh part stands for
TemplateChildren(tpl) ==
    CASE tpl.builder = "lantern" ->
            << MeshPart("interior"), MeshPart("frontSide"), MeshPart("backSide"),
               MeshPart("leftSide"), MeshPart("rightSide"), MeshPart("bottom"),
               MeshPart("top") >>
            \o (IF tpl.hanging = "hanging" THEN <<MeshPart("chain")>> ELSE <<>>)
            \o << LightPart("glowLight"), LightPart("light") >>
      [] tpl.builder = "grindstone" ->
            << MeshPart("frame"), MeshPart("wheel"), MeshPart("leftLeg"),
               MeshPart("rightLeg") >>
      [] OTHER -> << MeshPart("part") >>

\* createTrapdoorBlock's lengths in 1/32 of a block: the thickness 0.1875 of
\* the box, the offset 0.4375 of a closed trapdoor and the 0.5 of an open one
TrapdoorThickness == 6
TrapdoorClosedOffset == 14
TrapdoorOpenOffset == 16

\* the trapdoor mesh of a trapdoor template: BoxGeometry(1, 0.1875, 1),
\* position and Euler rotation in degrees as the builder sets them from the
\* state it read
TrapdoorMesh(tpl) ==
    LET size == <<32, TrapdoorThickness, 32>> IN
    IF tpl.tdOpen = "open"
    THEN CASE tpl.tdFacing = "north" ->
                [size |-> size, position |-> <<0, 0, TrapdoorOpenOffset>>,
                 rotation |-> <<90, 0, 0>>]
           [] tpl.tdFacing = "south" ->
                [size |-> size, position |-> <<0, 0, -TrapdoorOpenOffset>>,
                 rotation |-> <<270, 0, 0>>]
           [] tpl.tdFacing = "east" ->
                [size |-> size, position |-> <<-TrapdoorOpenOffset, 0, 0>>,
                 rotation |-> <<0, 0, 270>>]
           [] tpl.tdFacing = "west" ->
                [size |-> size, position |-> <<TrapdoorOpenOffset, 0, 0>>,
                 rotation |-> <<0, 0, 90>>]
           [] OTHER -> [size |-> size, position |-> <<0, 0, 0>>, rotation |-> <<0, 0, 0>>]
    ELSE [size |-> size,
          position |-> <<0, IF tpl.tdHalf = "top" THEN TrapdoorClosedOffset
                            ELSE -TrapdoorClosedOffset, 0>>,
          rotation |-> <<0, CASE tpl.tdFacing = "north" -> 180
                              [] tpl.tdFacing = "south" -> 0
                              [] tpl.tdFacing = "east" -> 90
                              [] tpl.tdFacing = "west" -> 270
                              [] OTHER -> 0, 0>>]

\* the yaw in degrees of the switch on facing (Math.PI is 180); a facing
\* that no case names leaves the rotation at 0
FacingYaw(facing) ==
    CASE facing = "north" -> 180
      [] facing = "south" -> 0
      [] facing = "west" -> 270
      [] facing = "east" -> 90
      [] OTHER -> 0

\* group.rotation.y of a Group template, in degrees
TemplateYaw(tpl) == IF tpl.builder = "grindstone" THEN FacingYaw(tpl.facing) ELSE 0

\* the blockGroup built for position i (from 1) of a group: a new THREE.Group
\* at the position, holding a new Mesh for every child of the template that
\* isMesh, named `${key}_${i}_part_${childIndex}`
BlockGroup(g, tpl, i) ==
    LET ch == TemplateChildren(tpl)
        all == [k \in 1..Len(ch) |->
                  [name |-> g.key \o <<ToString(i - 1), "part", ToString(k - 1)>>,
                   part |-> ch[k].part, isMesh |-> ch[k].isMesh,
                   isLight |-> ch[k].isLight]]
    IN  [name |-> g.key \o <<ToString(i - 1)>>,
         position |-> g.positions[i],
         yaw |-> 0,
         children |-> SelectSeq(all, LAMBDA c : c.isMesh)]

\* the node built for a Group template: one container holding a clone of the
\* template's meshes per position
ContainerNode(g, tpl) ==
    [node |-> "container", key |-> g.key, template |-> tpl,
     positions |-> g.positions, isTransparent |-> tpl.transparent,
     isLeaf |-> FALSE, isSlab |-> FALSE,
     blockGroups |-> [i \in 1..Len(g.positions) |-> BlockGroup(g, tpl, i)]]

\* Math.cos and Math.sin at a multiple of 90 degrees, up to the rounding of
\* Math.PI (cos(PI/2) is 6e-17 in floating point, 0 here)
Cos90(d) == CASE d % 360 = 0 -> 1 [] d % 360 = 180 -> -1 [] OTHER -> 0
Sin90(d) == CASE d % 360 = 90 -> 1 [] d % 360 = 270 -> -1 [] OTHER -> 0

\* the upper-left 3x3 block of a Matrix4, by rows
Identity3 == << <<1, 0, 0>>, <<0, 1, 0>>, <<0, 0, 1>> >>

\* Matrix4.makeRotationY(theta) and makeRotationX(theta), theta in degrees
makeRotationY(d) ==
    << <<Cos90(d), 0, Sin90(d)>>, <<0, 1, 0>>, <<-Sin90(d), 0, Cos90(d)>> >>

makeRotationX(d) ==
    << <<1, 0, 0>>, <<0, Cos90(d), -Sin90(d)>>, <<0, Sin90(d), Cos90(d)>> >>

\* a.multiply(b): a becomes a x b
Multiply(a, b) ==
    [i \in 1..3 |-> [j \in 1..3 |-> a[i][1] * b[1][j] + a[i][2] * b[2][j] + a[i][3] * b[3][j]]]

\* the stair rotation without the flip of the top half
InstanceRotationNoFlip(g) ==
    IF HasUWord(g.type, "stairs") \/ g.type = <<"stairs">>
    THEN LET facing == OrElse(g.options.facing, "east")
             half == OrElse(g.options.half, "bottom")
         IN  Multiply(makeRotationY(FacingYaw(facing)),
                      makeRotationY(IF half = "top" THEN -90 ELSE 90))
    ELSE Identity3

\* the rotation part of the matrix written by setMatrixAt for a group
InstanceRotation(g) ==
    IF HasUWord(g.type, "stairs") \/ g.type = <<"stairs">>
    THEN LET facing == OrElse(g.options.facing, "east")
             half == OrElse(g.options.half, "bottom")
             based == IF facing \in {"north", "south", "west", "east"}
                      THEN makeRotationY(FacingYaw(facing)) ELSE Identity3
             flipped == IF half = "top" THEN Multiply(based, makeRotationX(180)) ELSE based
         IN  Multiply(flipped, makeRotationY(IF half = "top" THEN -90 ELSE 90))
    ELSE Identity3

\* the entry pushed to instancedMeshes for a Mesh template
InstancedNode(g, tpl) ==
    [node |-> "instanced", key |-> g.key, template |-> tpl,
     positions |-> g.positions, isTransparent |-> tpl.transparent,
     isLeaf |-> HasWord(g.key, "leaves"), isSlab |-> HasInnerWord(g.key, "slab"),
     instances |-> [i \in 1..Len(g.positions) |->
                      [rotation |-> InstanceRotation(g), position |-> g.positions[i]]]]

\* the second loop over instanceGroups: a group without a template is
\* skipped, a container is added to the scene at once, an instanced mesh is
\* collected
RECURSIVE EmitGroups(_, _, _, _)
EmitGroups(groups, cache, sc, meshes) ==
    IF groups = <<>> THEN [scene |-> sc, instancedMeshes |-> meshes]
    ELSE LET g == Head(groups)
             k == TemplateCacheKey(g)
         IN  IF k \notin DOMAIN cache
             THEN EmitGroups(Tail(groups), cache, sc, meshes)
             ELSE IF cache[k].kind = "Group"
             THEN EmitGroups(Tail(groups), cache, Append(sc, ContainerNode(g, cache[k])), meshes)
             ELSE EmitGroups(Tail(groups), cache, sc, Append(meshes, InstancedNode(g, cache[k])))

\* the scene after the sorted instanced meshes have been added
FinalScene(groups, cache) ==
    LET e == EmitGroups(groups, cache, <<>>, <<>>)
    IN  e.scene \o SortMeshes(e.instancedMeshes, <<>>)

\* the first loop over instanceGroups: one loadBlock call per group whose
\* cacheKey is not in templateCache; the call reads blockCache before its
\* first await
RECURSIVE IssueLoads(_, _, _, _)
IssueLoads(groups, i, tcache, bcache) ==
    IF i > Len(groups) THEN <<>>
    ELSE LET g == groups[i] IN
         (IF TemplateCacheKey(g) \in DOMAIN tcache THEN <<>>
          ELSE << [group |-> i, type |-> g.type, options |-> g.options,
                   cacheKey |-> TemplateCacheKey(g),
                   hit |-> CacheHit(g.type, g.options, bcache),
                   state |-> "pending", result |-> "none",
                   template |-> IF CacheHit(g.type, g.options, bcache)
                                THEN CachedBlock(g.type, g.options, bcache)
                                ELSE NoTemplate] >>)
         \o IssueLoads(groups, i + 1, tcache, bcache)

(***************************************************************************)
(* World snapshots of the model                                            *)
(***************************************************************************)
MaxBlocks == 2

Kinds ==
    { [Blank EXCEPT !.type = <<"stone">>, !.y = 64],
      [Blank EXCEPT !.type = <<"stone">>, !.y = 200],
      [Blank EXCEPT !.type = <<"glass">>, !.y = 64],
      [Blank EXCEPT !.type = <<"stone", "slab">>, !.y = 64, !.isUpperSlab = JFalse],
      [Blank EXCEPT !.type = <<"stone", "slab">>, !.y = 64, !.isUpperSlab = JTrue],
      [Blank EXCEPT !.type = <<"stone", "slab">>, !.y = 64, !.extraUpper = JTrue],
      [Blank EXCEPT !.type = <<"oak", "log">>, !.y = 65],
      [Blank EXCEPT !.type = <<"concrete">>, !.y = 64, !.color = "red"],
      [Blank EXCEPT !.type = <<"concrete">>, !.y = 64, !.color = "blue"],
      [Blank EXCEPT !.type = <<"cobblestone", "wall">>, !.y = 64, !.hasConnections = TRUE,
                    !.connections = << <<"north", STrue>>, <<"east", SFalse>> >>],
      [Blank EXCEPT !.type = <<"cobblestone", "wall">>, !.y = 64, !.hasConnections = TRUE,
                    !.connections = << <<"east", STrue>>, <<"north", SFalse>> >>],
      [Blank EXCEPT !.type = <<"cobblestone", "wall">>, !.y = 64, !.hasConnections = TRUE,
                    !.connections = << <<"north", STrue>>, <<"east", STrue>> >>],
      [Blank EXCEPT !.type = <<"cobblestone", "wall">>, !.y = 64, !.hasConnections = TRUE,
                    !.connections = << <<"east", STrue>>, <<"north", STrue>> >>],
      [Blank EXCEPT !.type = <<"lantern">>, !.y = 64, !.hanging = JTrue],
      [Blank EXCEPT !.type = <<"lantern">>, !.y = 64, !.hanging = JFalse],
      [Blank EXCEPT !.type = <<"fern">>, !.y = 64],
      [Blank EXCEPT !.type = <<"cobweb">>, !.y = 64],
      [Blank EXCEPT !.type = <<"oak", "stairs">>, !.y = 64, !.hasStairData = TRUE,
                    !.sdFacing = "north", !.sdHalf = "bottom", !.sdShape = "straight"],
      [Blank EXCEPT !.type = <<"stone", "button">>, !.y = 64] }

\* the i-th record of a snapshot stands in column i of one row of the build
Place(kinds) ==
    [i \in 1..Len(kinds) |-> [kinds[i] EXCEPT !.x = centerX + i, !.z = centerZ]]

Snapshots == UNION {[1..n -> Kinds] : n \in 1..MaxBlocks}

\* the validation filter of loadSpawnChunk: a string type and numeric x, y, z
ValidBlocks(bs) ==
    SelectSeq(bs, LAMBDA b : /\ b.hasType /\ b.type \in Seq(STRING)
                             /\ b.x \in Int /\ b.hasY /\ b.y \in Int /\ b.z \in Int)

\* the chunkSize of the WorldLoader of the model (16 in the source); the
\* trees, plants and slabs of generateTestChunk stand at columns 3 and up
TestChunkSize == 1

\* the six terrain blocks generateTestChunk pushes for column (x, z)
TestColumn(x, z) ==
    << [Blank EXCEPT !.type = <<"bedrock">>, !.x = x, !.y = 0, !.z = z],
       [Blank EXCEPT !.type = <<"stone">>, !.x = x, !.y = 1, !.z = z],
       [Blank EXCEPT !.type = <<"stone">>, !.x = x, !.y = 2, !.z = z],
       [Blank EXCEPT !.type = <<"stone">>, !.x = x, !.y = 3, !.z = z],
       [Blank EXCEPT !.type = <<"dirt">>, !.x = x, !.y = 4, !.z = z],
       [Blank EXCEPT !.type = <<"grass", "block">>, !.x = x, !.y = 5, !.z = z] >>

\* the columns from number c on, x outer and z inner
RECURSIVE TestColumnsFrom(_)
TestColumnsFrom(c) ==
    IF c >= TestChunkSize * TestChunkSize THEN <<>>
    ELSE TestColumn(c \div TestChunkSize, c % TestChunkSize) \o TestColumnsFrom(c + 1)

generateTestChunk == TestColumnsFrom(0)

\* whether processBlocks throws: the loop reads block.type.includes of every
\* record it does not skip, a TypeError when the record has no string type
RECURSIVE ProcessThrowsFrom(_, _, _)
ProcessThrowsFrom(blocks, i, nulled) ==
    IF i > Len(blocks) THEN FALSE
    ELSE LET b == blocks[i] IN
         IF PosKey(b.x, b.y, b.z) \in nulled THEN ProcessThrowsFrom(blocks, i + 1, nulled)
         ELSE IF ~b.hasType THEN TRUE
         ELSE ProcessThrowsFrom(blocks, i + 1,
                  IF IsDoublePlantType(b.type)
                  THEN nulled \cup {PosKey(b.x, b.y + 1, b.z)} ELSE nulled)

\* loadSpawnChunk without the fallback for a body without valid blocks
loadSpawnChunkUnguarded(outcome, blocks) ==
    IF outcome # "ok" THEN generateTestChunk
    ELSE IF ProcessThrowsFrom(blocks, 1, {}) THEN generateTestChunk
    ELSE ValidBlocks(ProcessBlocks(blocks))

\* what loadSpawnChunk resolves to: outcome is what the fetch did
\* ("fetchError": fetch rejects, "notOk": response.ok is false, "noBlocks":
\* the body has no blocks array, "ok": the body carries blocks)
loadSpawnChunk(outcome, blocks) ==
    IF outcome # "ok" THEN generateTestChunk
    ELSE IF ProcessThrowsFrom(blocks, 1, {}) THEN generateTestChunk
    ELSE IF ValidBlocks(ProcessBlocks(blocks)) = <<>> THEN generateTestChunk
    ELSE ValidBlocks(ProcessBlocks(blocks))

(***************************************************************************)
(* slabFactory: getSlabGeometry and its cache.  Lengths are in quarters of *)
(* a block, so that 0.5 is 2 and 0.25 is 1.                                *)
(***************************************************************************)
\* new THREE.BoxGeometry(w, h, d): a box centered on the origin
BoxGeometry(w, h, d) == [width |-> w, height |-> h, depth |-> d, centerY |-> 0]

\* geometry.translate(0, dy, 0)
Translate(g, dy) == [g EXCEPT !.centerY = @ + dy]

SlabGeometryKey(isUpperSlab) == IF Truthy(isUpperSlab) THEN "upper_slab" ELSE "lower_slab"

\* a cache hit that translates the cached geometry once more
getSlabGeometryRetranslated(isUpperSlab, cache) ==
    IF SlabGeometryKey(isUpperSlab) \in DOMAIN cache
    THEN Translate(cache[SlabGeometryKey(isUpperSlab)], IF Truthy(isUpperSlab) THEN 1 ELSE -1)
    ELSE Translate(BoxGeometry(4, 2, 4), IF Truthy(isUpperSlab) THEN 1 ELSE -1)

\* the geometry getSlabGeometry returns when the cache is as given
getSlabGeometry(isUpperSlab, cache) ==
    IF SlabGeometryKey(isUpperSlab) \in DOMAIN cache
    THEN cache[SlabGeometryKey(isUpperSlab)]
    ELSE Translate(BoxGeometry(4, 2, 4), IF Truthy(isUpperSlab) THEN 1 ELSE -1)

\* the cache after that call
SlabGeometryCacheAfter(isUpperSlab, cache) ==
    IF SlabGeometryKey(isUpperSlab) \in DOMAIN cache THEN cache
    ELSE (SlabGeometryKey(isUpperSlab) :> getSlabGeometry(isUpperSlab, cache)) @@ cache

(***************************************************************************)
(* State of one world load                                                 *)
(***************************************************************************)
VARIABLES
    slabGeometryCache, \* slabFactory's slabGeometryCache
    returned,       \* what the builder calls made outside init have returned
    pc,             \* where init stands
    snapshot,       \* data.blocks as served
    allBlocks,      \* what loadSpawnChunk resolved to
    blocks,         \* the filtered and folded blocks
    instanceGroups, \* the Map of groups, in insertion order
    loads,          \* the loadBlock calls issued by init
    templateCache,  \* init's templateCache
    blockCache,     \* TextureLoader.blockCache
    scene,          \* the nodes added to the scene, in order
    isAnimating,    \* main.js isAnimating
    momentum,       \* main.js momentum, in 1/10000 of a radian per frame
    pendingFrames   \* the animateCamera callbacks requested and not yet run

cameraVars == <<isAnimating, momentum, pendingFrames>>

vars == <<pc, snapshot, allBlocks, blocks, instanceGroups, loads,
          templateCache, blockCache, scene, slabGeometryCache, returned,
          isAnimating, momentum, pendingFrames>>

\* the camera animation state as the module declares it
CameraAtRest ==
    /\ isAnimating = FALSE
    /\ momentum = 0
    /\ pendingFrames = 0

\* the module-level caches and the call log before anything has run
Fresh ==
    /\ slabGeometryCache = <<>>
    /\ returned = <<>>
    /\ CameraAtRest

Init ==
    /\ Fresh
    /\ pc = "start"
    /\ snapshot \in {Place(s) : s \in Snapshots}
    /\ allBlocks = <<>>
    /\ blocks = <<>>
    /\ instanceGroups = <<>>
    /\ loads = <<>>
    /\ templateCache = <<>>
    /\ blockCache = <<>>
    /\ scene = <<>>

\* await worldLoader.loadSpawnChunk(), the server answering with the snapshot
LoadSpawnChunk ==
    /\ pc = "start"
    /\ allBlocks' = loadSpawnChunk("ok", snapshot)
    /\ pc' = "loaded"
    /\ UNCHANGED <<snapshot, blocks, instanceGroups, loads, templateCache,
                   blockCache, scene, slabGeometryCache, returned, cameraVars>>

\* init from the filter up to await Promise.all(loadingPromises)
GroupAndIssue ==
    /\ pc = "loaded"
    /\ blocks' = FilterMap(allBlocks)
    /\ instanceGroups' = GroupBlocks(blocks', <<>>)
    /\ loads' = IssueLoads(instanceGroups', 1, templateCache, blockCache)
    /\ pc' = "awaiting"
    /\ UNCHANGED <<snapshot, allBlocks, templateCache, blockCache, scene,
                   slabGeometryCache, returned, cameraVars>>

\* one loadBlock call completes and its then/catch handlers run
Settle(i) ==
    /\ pc = "awaiting"
    /\ loads[i].state = "pending"
    /\ \E texOK \in BOOLEAN :
         LET l == loads[i]
             r == IF l.hit THEN Resolved(l.template)
                  ELSE LoadBuild(l.type, l.options, texOK)
         IN  /\ blockCache' =
                    IF ~l.hit /\ StoresInCache(l.type, l.options, r)
                    THEN (BlockCacheKey(l.type, l.options) :> r.template) @@ blockCache
                    ELSE blockCache
             /\ templateCache' =
                    IF r.status = "resolved"
                    THEN (l.cacheKey :> r.template) @@ templateCache
                    ELSE templateCache
             /\ loads' = [loads EXCEPT ![i].state = LoadPromiseState(r),
                                       ![i].result = r.status,
                                       ![i].template = r.template]
             /\ slabGeometryCache' =
                    IF ~l.hit /\ LoadPath(l.type, l.options) = "slab"
                    THEN SlabGeometryCacheAfter(
                             OptionsPassed(l.type, l.options).isUpperSlab, slabGeometryCache)
                    ELSE slabGeometryCache
    /\ UNCHANGED <<pc, snapshot, allBlocks, blocks, instanceGroups, scene, returned, cameraVars>>

\* Promise.all settles; the second loop, the sort and the scene.add calls
Emit ==
    /\ pc = "awaiting"
    /\ AllSettled(loads)
    /\ IF \E i \in 1..Len(loads) : loads[i].state = "rejected"
       THEN /\ pc' = "rejected"
            /\ scene' = scene
       ELSE /\ pc' = "done"
            /\ scene' = FinalScene(instanceGroups, templateCache)
    /\ UNCHANGED <<snapshot, allBlocks, blocks, instanceGroups, loads,
                   templateCache, blockCache, slabGeometryCache, returned, cameraVars>>

Next ==
    \/ LoadSpawnChunk
    \/ GroupAndIssue
    \/ \E i \in 1..Len(loads) : Settle(i)
    \/ Emit

Spec == Init /\ [][Next]_vars

(***************************************************************************)
(* Properties of one world load                                            *)
(***************************************************************************)
Grouped == pc \in {"awaiting", "done", "rejected"}

BlocksWithKey(key) == {i \in 1..Len(blocks) : GroupKey(blocks[i]) = key}

\* C1: after the grouping pass every instance group holds exactly one
\* position per block grouped under its key (instance count = block count).
C1_OnePositionPerBlock ==
    Grouped =>
        \A g \in 1..Len(instanceGroups) :
            /\ Len(instanceGroups[g].positions)
                  = Cardinality(BlocksWithKey(instanceGroups[g].key))
            /\ instanceGroups[g].count
                  = Cardinality(BlocksWithKey(instanceGroups[g].key))

\* the type and the render-affecting attributes named by the claim; the
\* slab flag is the attribute wherever the record stores it (root or
\* extra_data)
SameKeyAttributes(a, b) ==
    /\ a.type = b.type
    /\ a.isUpperSlab = b.isUpperSlab /\ a.extraUpper = b.extraUpper
    /\ a.facing = b.facing /\ a.half = b.half
    /\ a.hasTrapdoorState = b.hasTrapdoorState /\ a.tdOpen = b.tdOpen
    /\ a.tdHalf = b.tdHalf /\ a.tdFacing = b.tdFacing
    /\ a.hasConnections = b.hasConnections /\ a.connections = b.connections
    /\ a.hanging = b.hanging

GroupHolding(i) ==
    {g \in 1..Len(instanceGroups) :
        \E p \in 1..Len(instanceGroups[g].positions) :
            instanceGroups[g].positions[p] = <<blocks[i].x, blocks[i].y, blocks[i].z>>}

\* C2: the group key depends on the type and the render-affecting attributes
\* only: blocks that agree on them (in particular blocks that differ only in
\* position) get the same key and are collected in the same group.
C2_KeyIgnoresPosition ==
    Grouped =>
        \A i, j \in 1..Len(blocks) :
            SameKeyAttributes(blocks[i], blocks[j]) =>
                /\ GroupKey(blocks[i]) = GroupKey(blocks[j])
                /\ GroupHolding(i) = GroupHolding(j)
                /\ \E g \in GroupHolding(i) : instanceGroups[g].key = GroupKey(blocks[i])

C2_Witness ==
    /\ pc = "awaiting"
    /\ Len(blocks) = 2
    /\ SameKeyAttributes(blocks[1], blocks[2])
    /\ blocks[1].x # blocks[2].x
    /\ HasUWord(blocks[1].type, "wall")
    /\ Len(instanceGroups) = 1

\* C3: two blocks with the same group key agree on everything the template
\* builder reads (slab half, stair facing, trapdoor state, connections,
\* hanging flag, dye color): the template built from either block's options
\* is the same.
C3_SameKeySameTemplate ==
    Grouped =>
        \A i, j \in 1..Len(blocks) :
            GroupKey(blocks[i]) = GroupKey(blocks[j]) =>
                LoadBuild(blocks[i].type, GroupOptions(blocks[i]), TRUE)
                    = LoadBuild(blocks[j].type, GroupOptions(blocks[j]), TRUE)

GroupOfKey(key) == instanceGroups[GroupIndex(instanceGroups, key)]

BuiltFrom(tpl, g) ==
    \E texOK \in BOOLEAN : LoadBuild(g.type, g.options, texOK).template = tpl

\* C4: after all loads have settled, every group is emitted with the
\* template built from its own type and options, whatever the completion
\* order of the loads.
C4_OwnTemplate ==
    pc = "done" =>
        \A n \in 1..Len(scene) : BuiltFrom(scene[n].template, GroupOfKey(scene[n].key))

\* C5: every template load is issued before any node is emitted, and nodes
\* are emitted only once every issued load has settled.
C5_EmitAfterAllSettled ==
    scene # <<>> =>
        /\ \A g \in 1..Len(instanceGroups) :
              \E l \in 1..Len(loads) : loads[l].group = g
        /\ \A l \in 1..Len(loads) : loads[l].state # "pending"

C5_Witness ==
    /\ pc = "done"
    /\ Len(scene) = 2
    /\ Len(loads) = 2
    /\ loads[2].result = "resolved"

\* C6: a load that fails never prevents the other groups from being
\* emitted: init does not reject, and once it is done every group whose
\* load succeeded has a node in the scene.
C6_FailureIsolated ==
    /\ pc # "rejected"
    /\ pc = "done" =>
          \A l \in 1..Len(loads) :
              loads[l].result = "resolved" =>
                  \E n \in 1..Len(scene) :
                      scene[n].key = instanceGroups[loads[l].group].key

C6_Witness ==
    /\ pc = "done"
    /\ \E l \in 1..Len(loads) : loads[l].result = "rejected"
    /\ \E l \in 1..Len(loads) : loads[l].result = "resolved"
    /\ Len(scene) = 1

\* C7: every group formed in the grouping pass ends up in the scene with all
\* of its positions, with its real template or with the fallback.
C7_EveryGroupEmitted ==
    pc = "done" =>
        \A g \in 1..Len(instanceGroups) :
            \E n \in 1..Len(scene) :
                /\ scene[n].key = instanceGroups[g].key
                /\ scene[n].positions = instanceGroups[g].positions

\* the loadBlock branches that build through createBlock
CallsCreateBlock(t, o) ==
    LoadPath(t, o) \in {"slab", "trapdoor", "lantern", "connected", "generic"}

\* C8: createBlock is total: for every block type and every outcome of the
\* texture loads its promise resolves to a mesh or group and never rejects.
C8_CreateBlockTotal ==
    \A l \in 1..Len(loads) :
        CallsCreateBlock(loads[l].type, loads[l].options) =>
            \A texOK \in BOOLEAN :
                LET r == createBlock(loads[l].type,
                                     OptionsPassed(loads[l].type, loads[l].options), texOK)
                IN  r.status = "resolved" /\ r.template.kind \in {"Mesh", "Group"}

\* C9: in the order in which nodes are added to the scene, no node with only
\* opaque materials comes after a node that has a transparent material.
C9_OpaqueBeforeTransparent ==
    pc = "done" =>
        \A m, n \in 1..Len(scene) :
            m < n => ~(scene[m].isTransparent /\ ~scene[n].isTransparent)

ConnectedSet(conns) ==
    {conns[i][1] : i \in {j \in 1..Len(conns) : conns[j][2] = STrue}}

\* C12: the connection part of a wall/fence key depends only on the set of
\* connected directions: two blocks of one type whose connection maps list
\* the same connected directions, in whatever insertion order, get the same
\* group key in init and the same cache key in loadBlock.
C12_ConnectionOrderIrrelevant ==
    Grouped =>
        \A i, j \in 1..Len(blocks) :
            ( /\ blocks[i].type = blocks[j].type
              /\ blocks[i].hasConnections /\ blocks[j].hasConnections
              /\ ConnectedSet(blocks[i].connections) = ConnectedSet(blocks[j].connections) ) =>
                /\ GroupKey(blocks[i]) = GroupKey(blocks[j])
                /\ GroupHolding(i) = GroupHolding(j)
                /\ BlockCacheKey(blocks[i].type, GroupOptions(blocks[i]))
                      = BlockCacheKey(blocks[j].type, GroupOptions(blocks[j]))

C12_Witness ==
    /\ pc = "awaiting"
    /\ Len(blocks) = 2
    /\ blocks[1].hasConnections /\ blocks[2].hasConnections
    /\ blocks[1].connections # blocks[2].connections
    /\ ConnectedSet(blocks[1].connections) = {"north", "east"}
    /\ ConnectedSet(blocks[2].connections) = {"north", "east"}
    /\ Len(instanceGroups) = 1
    /\ instanceGroups[1].key = <<"cobblestone", "wall", "connections", "east", "north">>

(***************************************************************************)
(* processBlocks on snapshots of slab records                              *)
(***************************************************************************)
MaxData == 15

SlabKinds ==
    { [Blank EXCEPT !.type = <<"slab">>, !.y = 64, !.hasData = TRUE, !.data = d] :
          d \in -MaxData..MaxData }
    \cup
    { [Blank EXCEPT !.type = <<"slab">>, !.y = 64],
      [Blank EXCEPT !.type = <<"slab">>, !.y = 64, !.extraUpper = JTrue],
      [Blank EXCEPT !.type = <<"slab">>, !.y = 64, !.hasData = TRUE, !.data = 13,
                    !.isUpperSlab = JTrue],
      [Blank EXCEPT !.type = <<"stone", "slab">>, !.y = 64, !.hasData = TRUE, !.data = 3],
      [Blank EXCEPT !.type = <<"stone">>, !.y = 64, !.hasData = TRUE, !.data = 3] }

SlabSnapshots == UNION {[1..n -> SlabKinds] : n \in 1..MaxBlocks}

InitSlabs ==
    /\ Fresh
    /\ pc = "start"
    /\ snapshot \in {Place(s) : s \in SlabSnapshots}
    /\ allBlocks = <<>>
    /\ blocks = <<>>
    /\ instanceGroups = <<>>
    /\ loads = <<>>
    /\ templateCache = <<>>
    /\ blockCache = <<>>
    /\ scene = <<>>

NextSlabs == LoadSpawnChunk

SpecSlabs == InitSlabs /\ [][NextSlabs]_vars

IsGenericSlab(b) == b.type = <<"slab">>

\* the processed record standing where the snapshot record i stands
ProcessedAt(i) ==
    {k \in 1..Len(allBlocks) :
        /\ allBlocks[k].x = snapshot[i].x
        /\ allBlocks[k].y = snapshot[i].y
        /\ allBlocks[k].z = snapshot[i].z}

\* C10: a record of type 'slab' with integer data d becomes the slab type at
\* index d mod 8 (the low three bits) of the table stone, sandstone, oak,
\* cobblestone, brick, stone_brick, nether_brick, quartz; d and d + 8 give
\* the same type; without data it becomes stone_slab.
C10_GenericSlabByLowBits ==
    pc = "loaded" =>
        /\ \A i \in 1..Len(snapshot) :
              IsGenericSlab(snapshot[i]) =>
                  /\ ProcessedAt(i) # {}
                  /\ \A k \in ProcessedAt(i) :
                        /\ allBlocks[k].originalType = "slab"
                        /\ allBlocks[k].type =
                              IF ~snapshot[i].hasData THEN <<"stone", "slab">>
                              ELSE CASE snapshot[i].data % 8 = 0 -> <<"stone", "slab">>
                                     [] snapshot[i].data % 8 = 1 -> <<"sandstone", "slab">>
                                     [] snapshot[i].data % 8 = 2 -> <<"oak", "slab">>
                                     [] snapshot[i].data % 8 = 3 -> <<"cobblestone", "slab">>
                                     [] snapshot[i].data % 8 = 4 -> <<"brick", "slab">>
                                     [] snapshot[i].data % 8 = 5 -> <<"stone", "brick", "slab">>
                                     [] snapshot[i].data % 8 = 6 -> <<"nether", "brick", "slab">>
                                     [] snapshot[i].data % 8 = 7 -> <<"quartz", "slab">>
        /\ \A i, j \in 1..Len(snapshot) :
              ( /\ IsGenericSlab(snapshot[i]) /\ IsGenericSlab(snapshot[j])
                /\ snapshot[i].hasData /\ snapshot[j].hasData
                /\ snapshot[j].data = snapshot[i].data + 8 ) =>
                  \A k \in ProcessedAt(i), m \in ProcessedAt(j) :
                      allBlocks[k].type = allBlocks[m].type

C10_Witness ==
    /\ pc = "loaded"
    /\ Len(snapshot) = 2
    /\ IsGenericSlab(snapshot[1]) /\ snapshot[1].hasData /\ snapshot[1].data = 5
    /\ IsGenericSlab(snapshot[2]) /\ snapshot[2].hasData /\ snapshot[2].data = 13
    /\ allBlocks[1].type = <<"stone", "brick", "slab">>
    /\ allBlocks[2].type = <<"stone", "brick", "slab">>

(***************************************************************************)
(* processBlocks on snapshots of one column holding double plants          *)
(***************************************************************************)
PlantColumnTypes ==
    { <<"double", "plant">>, <<"double", "plant", "grass">>,
      <<"double", "plant", "fern">>, <<"double", "plant", "sunflower">>,
      <<"double", "plant", "fern", "top">>, <<"fern">>, <<"stone">> }

PlantKinds ==
    { [Blank EXCEPT !.type = t, !.y = y] : t \in PlantColumnTypes, y \in {64, 65} }

\* every record of the snapshot stands in the same column of the build
PlaceColumn(kinds) ==
    [i \in 1..Len(kinds) |-> [kinds[i] EXCEPT !.x = centerX, !.z = centerZ]]

PlantSnapshots == UNION {[1..n -> PlantKinds] : n \in 1..MaxBlocks}

InitPlants ==
    /\ Fresh
    /\ pc = "start"
    /\ snapshot \in {PlaceColumn(s) : s \in PlantSnapshots}
    /\ allBlocks = <<>>
    /\ blocks = <<>>
    /\ instanceGroups = <<>>
    /\ loads = <<>>
    /\ templateCache = <<>>
    /\ blockCache = <<>>
    /\ scene = <<>>

NextPlants == LoadSpawnChunk

SpecPlants == InitPlants /\ [][NextPlants]_vars

\* C11: a snapshot of one double-plant record at (x, y, z) is processed into
\* exactly two records, a bottom part at (x, y, z) and a synthesized top part
\* at (x, y + 1, z), both of the plant kind the input record names.
C11_DoublePlantPair ==
    (pc = "loaded" /\ Len(snapshot) = 1 /\ IsDoublePlantType(snapshot[1].type)) =>
        /\ Len(allBlocks) = 2
        /\ allBlocks[1].x = snapshot[1].x /\ allBlocks[1].y = snapshot[1].y
        /\ allBlocks[1].z = snapshot[1].z
        /\ allBlocks[2].x = snapshot[1].x /\ allBlocks[2].y = snapshot[1].y + 1
        /\ allBlocks[2].z = snapshot[1].z
        /\ allBlocks[1].isDoublePlantBottom /\ allBlocks[2].isDoublePlantTop
        /\ Len(allBlocks[1].type) = 4
        /\ LET kind == allBlocks[1].type[3] IN
              /\ allBlocks[1].type = <<"double", "plant", kind, "bottom">>
              /\ allBlocks[2].type = <<"double", "plant", kind, "top">>
              /\ Len(snapshot[1].type) > 2 => kind = snapshot[1].type[3]

C11_Witness ==
    /\ pc = "loaded"
    /\ Len(snapshot) = 1
    /\ snapshot[1].type = <<"double", "plant", "fern">>
    /\ Len(allBlocks) = 2
    /\ allBlocks[2].type = <<"double", "plant", "fern", "top">>
    /\ allBlocks[2].y = 65

\* no two records of the list stand at the same position
OnePerPosition(bs) ==
    \A i, j \in 1..Len(bs) :
        i # j => PosKey(bs[i].x, bs[i].y, bs[i].z) # PosKey(bs[j].x, bs[j].y, bs[j].z)

\* C29: if the snapshot has at most one block per position, so has the output
\* of processBlocks, whatever the order of the input: a synthesized top never
\* coexists with another record at its position.
C29_OutputOnePerPosition ==
    (pc = "loaded" /\ OnePerPosition(snapshot)) => OnePerPosition(allBlocks)

(***************************************************************************)
(* Slab blocks built one after the other: init's key, the options handed   *)
(* down to createSlabBlock, and the geometry getSlabGeometry returns       *)
(***************************************************************************)
MaxRequests == 3

\* slab records as processBlocks leaves them (isUpperSlab is a boolean)
SlabBlocks ==
    { [Blank EXCEPT !.type = t, !.y = 64, !.isUpperSlab = u] :
          t \in { <<"stone", "slab">>, <<"sandstone", "slab">> }, u \in {JTrue, JFalse} }

InitSlabGeometry ==
    /\ Fresh
    /\ pc = "building"
    /\ snapshot = <<>>
    /\ allBlocks = <<>>
    /\ blocks = <<>>
    /\ instanceGroups = <<>>
    /\ loads = <<>>
    /\ templateCache = <<>>
    /\ blockCache = <<>>
    /\ scene = <<>>

\* createBlock(type, {isUpperSlab}) -> createSlabBlock -> getSlabGeometry
CreateSlabBlock(b) ==
    /\ pc = "building"
    /\ Len(returned) < MaxRequests
    /\ LET isUpperSlab == OptionsPassed(b.type, GroupOptions(b)).isUpperSlab IN
         /\ returned' = Append(returned,
                [key |-> GroupKey(b), type |-> b.type, isUpperSlab |-> isUpperSlab,
                 fromCache |-> SlabGeometryKey(isUpperSlab) \in DOMAIN slabGeometryCache,
                 geometry |-> getSlabGeometry(isUpperSlab, slabGeometryCache)])
         /\ slabGeometryCache' = SlabGeometryCacheAfter(isUpperSlab, slabGeometryCache)
    /\ UNCHANGED <<pc, snapshot, allBlocks, blocks, instanceGroups, loads,
                   templateCache, blockCache, scene, cameraVars>>

\* clearSlabGeometryCache()
ClearSlabGeometryCache ==
    /\ pc = "building"
    /\ slabGeometryCache # <<>>
    /\ slabGeometryCache' = <<>>
    /\ UNCHANGED <<pc, snapshot, allBlocks, blocks, instanceGroups, loads,
                   templateCache, blockCache, scene, returned, cameraVars>>

NextSlabGeometry ==
    \/ \E b \in SlabBlocks : CreateSlabBlock(b)
    \/ ClearSlabGeometryCache

SpecSlabGeometry == InitSlabGeometry /\ [][NextSlabGeometry]_vars

LoadRequests ==
    { <<t, NoOptions>> :
          t \in { <<"cobweb">>, <<"stone", "button">>, <<"fern">>, <<"stone">>,
                  <<"spruce", "door">>, <<"grindstone">> } }
    \cup
    { << <<"stone", "slab">>, [NoOptions EXCEPT !.isUpperSlab = JTrue] >>,
      << <<"lantern">>, [NoOptions EXCEPT !.hanging = JTrue] >>,
      << <<"concrete">>, [NoOptions EXCEPT !.color = "red"] >> }

InitLoadBlock ==
    /\ Fresh
    /\ pc = "calling"
    /\ snapshot = <<>>
    /\ allBlocks = <<>>
    /\ blocks = <<>>
    /\ instanceGroups = <<>>
    /\ loads = <<>>
    /\ templateCache = <<>>
    /\ blockCache = <<>>
    /\ scene = <<>>

\* one complete loadBlock(type, options) call
CallLoadBlock(req) ==
    /\ pc = "calling"
    /\ Len(returned) < MaxRequests
    /\ \E texOK \in BOOLEAN :
         LET t == req[1]
             o == req[2]
             hit == CacheHit(t, o, blockCache)
             r == IF hit THEN Resolved(CachedBlock(t, o, blockCache))
                  ELSE LoadBuild(t, o, texOK)
         IN  /\ blockCache' =
                    IF ~hit /\ StoresInCache(t, o, r)
                    THEN (BlockCacheKey(t, o) :> r.template) @@ blockCache
                    ELSE blockCache
             /\ slabGeometryCache' =
                    IF ~hit /\ LoadPath(t, o) = "slab"
                    THEN SlabGeometryCacheAfter(OptionsPassed(t, o).isUpperSlab,
                                                slabGeometryCache)
                    ELSE slabGeometryCache
             /\ returned' = Append(returned,
                    [op |-> "loadBlock", type |-> t, options |-> o,
                     fromCache |-> hit, status |-> r.status, template |-> r.template])
    /\ UNCHANGED <<pc, snapshot, allBlocks, blocks, instanceGroups, loads,
                   templateCache, scene, cameraVars>>

\* textureLoader.clearCaches()
ClearCaches ==
    /\ pc = "calling"
    /\ Len(returned) < MaxRequests
    /\ blockCache' = <<>>
    /\ returned' = Append(returned,
           [op |-> "clearCaches", type |-> <<>>, options |-> NoOptions,
            fromCache |-> FALSE, status |-> "resolved", template |-> NoTemplate])
    /\ UNCHANGED <<pc, snapshot, allBlocks, blocks, instanceGroups, loads,
                   templateCache, scene, slabGeometryCache, cameraVars>>

NextLoadBlock ==
    \/ \E req \in LoadRequests : CallLoadBlock(req)
    \/ ClearCaches

SpecLoadBlock == InitLoadBlock /\ [][NextLoadBlock]_vars

\* C14: once a loadBlock call for a type and options has completed, a later
\* call with the same type and options is served from the block cache
\* without running the builder again, for every category, as long as
\* clearCaches has not been called in between.
C14_Memoized ==
    \A i, j \in 1..Len(returned) :
        ( /\ i < j
          /\ returned[i].op = "loadBlock" /\ returned[j].op = "loadBlock"
          /\ returned[i].status = "resolved"
          /\ returned[i].type = returned[j].type
          /\ returned[i].options = returned[j].options
          /\ \A k \in i..j : returned[k].op # "clearCaches" ) =>
            returned[j].fromCache

Kept(cache, cacheAfter) ==
    \A k \in DOMAIN cache : k \in DOMAIN cacheAfter /\ cacheAfter[k] = cache[k]

\* C15: the shared caches are written insert-if-absent only: an entry that a
\* block cache or template cache holds is never replaced by a later
\* completion, even with several loads for the same key in flight.
C15_InsertIfAbsent ==
    [][Kept(templateCache, templateCache') /\ Kept(blockCache, blockCache')]_vars

(***************************************************************************)
(* createBlock called directly, one call after the other                   *)
(***************************************************************************)
MaxBuilds == 2

CreateTypes ==
    { <<"stone">>, <<"unknown">>, <<"glass">>, <<"water">>,
      <<"grass", "block">>, <<"dirt", "path">>, <<"cactus">>,
      <<"hay", "block">>, <<"spruce", "log">>,
      <<"oak", "leaves">>, <<"flowering", "azalea", "leaves">>,
      <<"fern">>, <<"spruce", "stairs">>, <<"stone", "slab">>,
      <<"cobblestone", "wall">>, <<"lantern">>, <<"grindstone">>, <<"chain">> }

InitCreateBlock ==
    /\ Fresh
    /\ pc = "creating"
    /\ snapshot = <<>>
    /\ allBlocks = <<>>
    /\ blocks = <<>>
    /\ instanceGroups = <<>>
    /\ loads = <<>>
    /\ templateCache = <<>>
    /\ blockCache = <<>>
    /\ scene = <<>>

\* one complete createBlock(blockType, {}) call
CallCreateBlock(t) ==
    /\ pc = "creating"
    /\ Len(returned) < MaxBuilds
    /\ \E texOK \in BOOLEAN :
         LET r == createBlock(t, NoOptions, texOK) IN
            /\ returned' = Append(returned,
                   [op |-> "createBlock", type |-> t, texOK |-> texOK,
                    status |-> r.status, template |-> r.template])
            /\ slabGeometryCache' =
                   IF isSlabBlock(t)
                   THEN SlabGeometryCacheAfter(NoOptions.isUpperSlab, slabGeometryCache)
                   ELSE slabGeometryCache
    /\ UNCHANGED <<pc, snapshot, allBlocks, blocks, instanceGroups, loads,
                   templateCache, blockCache, scene, cameraVars>>

NextCreateBlock == \E t \in CreateTypes : CallCreateBlock(t)

SpecCreateBlock == InitCreateBlock /\ [][NextCreateBlock]_vars

\* the calls that reached the category switch of createBlock
Switched(i) == returned[i].status = "resolved" /\ returned[i].template.builder = "generic"

FaceMaps(i) == [f \in 1..Len(returned[i].template.materials) |->
                    returned[i].template.materials[f].map]

FaceColors(i) == [f \in 1..Len(returned[i].template.materials) |->
                    returned[i].template.materials[f].color]

\* C16: when the texture loads of a block fail, the build still resolves and
\* every face material of the block carries the generated placeholder
\* texture, in each of the categories uniform, tbs, directional and leaves.
C16_PlaceholderOnEveryFace ==
    \A i \in 1..Len(returned) :
        (~returned[i].texOK /\ GenericCategory(returned[i].type)
                                  \in {"uniform", "tbs", "directional", "leaves"}
         /\ Switched(i)) =>
            /\ Len(returned[i].template.materials) = 6
            /\ \A f \in 1..6 : FaceMaps(i)[f] = "placeholder"

\* C18: createMultiFaceMaterial returns [side, side, top, bottom, side, side];
\* a tintColor colors the top material only, for grass_block the top and the
\* side material; the bottom material is never tinted, and without a
\* tintColor no material is tinted.
C18_MultiFaceOrderAndTint ==
    \A i \in 1..Len(returned) :
        (returned[i].texOK /\ Switched(i) /\ returned[i].template.category = "tbs") =>
            LET tint == Properties(returned[i].type).tintColor
                sideColor == IF tint # UNDEF /\ returned[i].type = <<"grass", "block">>
                             THEN tint ELSE "0xffffff"
                topColor == IF tint # UNDEF THEN tint ELSE "0xffffff"
            IN  /\ FaceMaps(i) = <<"side", "side", "top", "bottom", "side", "side">>
                /\ FaceColors(i) = <<sideColor, sideColor, topColor, "0xffffff",
                                     sideColor, sideColor>>

C18_Witness ==
    /\ Len(returned) = 2
    /\ returned[1].type = <<"grass", "block">> /\ returned[1].texOK
    /\ returned[2].type = <<"dirt", "path">> /\ returned[2].texOK
    /\ FaceColors(1) = <<"0x4CAF50", "0x4CAF50", "0x4CAF50", "0xffffff",
                         "0x4CAF50", "0x4CAF50">>
    /\ FaceColors(2) = <<"0xffffff", "0xffffff", "0xBDB76B", "0xffffff",
                         "0xffffff", "0xffffff">>

\* C19: the material of a uniform block honors the catalog properties
\* transparent, alphaCutoff, opacity and tintColor: a uniform block whose
\* entry has a tintColor is built with that color.
C19_UniformHonorsCatalog ==
    \A i \in 1..Len(returned) :
        (returned[i].texOK /\ Switched(i) /\ returned[i].template.category = "uniform") =>
            LET properties == Properties(returned[i].type) IN
            \A f \in 1..Len(returned[i].template.materials) :
                LET m == returned[i].template.materials[f] IN
                /\ m.transparent = (properties.transparent = JTrue)
                /\ properties.alphaCutoff # UNDEF => m.alphaTest = properties.alphaCutoff
                /\ properties.opacity # UNDEF => m.opacity = properties.opacity
                /\ properties.tintColor # UNDEF => m.color = properties.tintColor

\* C20: every type whose name contains "leaves" is built as a leaves block
\* and every type whose name contains "_log" as a directional block,
\* whatever the catalog lists and whatever other patterns the name matches.
C20_LeavesAndLogOverride ==
    \A i \in 1..Len(returned) :
        /\ HasWord(returned[i].type, "leaves") =>
              Switched(i) /\ returned[i].template.category = "leaves"
        /\ HasUWord(returned[i].type, "log") =>
              Switched(i) /\ returned[i].template.category = "directional"

(***************************************************************************)
(* The sort of instancedMeshes on arrays of every flag combination         *)
(***************************************************************************)
MaxMeshes == 3

\* an entry of instancedMeshes with the given flags
MeshEntry(isTransparent, isLeaf, isSlab) ==
    [node |-> "instanced", key |-> <<>>, template |-> NoTemplate, positions |-> <<>>,
     isTransparent |-> isTransparent, isLeaf |-> isLeaf, isSlab |-> isSlab]

MeshEntries == {MeshEntry(t, l, s) : t \in BOOLEAN, l \in BOOLEAN, s \in BOOLEAN}

\* the entries of an array named after their place in it
Named(a) == [i \in 1..Len(a) |-> [a[i] EXCEPT !.key = <<"mesh", ToString(i)>>]]

MeshArrays ==
    { Named(a) : a \in UNION {[1..n -> MeshEntries] : n \in 1..MaxMeshes} }

InitSort ==
    /\ pc = "collected"
    /\ returned \in MeshArrays
    /\ slabGeometryCache = <<>>
    /\ CameraAtRest
    /\ snapshot = <<>>
    /\ allBlocks = <<>>
    /\ blocks = <<>>
    /\ instanceGroups = <<>>
    /\ loads = <<>>
    /\ templateCache = <<>>
    /\ blockCache = <<>>
    /\ scene = <<>>

\* instancedMeshes.sort(...) and the scene.add loop
SortAndAdd ==
    /\ pc = "collected"
    /\ scene' = SortMeshes(returned, <<>>)
    /\ pc' = "sorted"
    /\ UNCHANGED <<snapshot, allBlocks, blocks, instanceGroups, loads, templateCache,
                   blockCache, slabGeometryCache, returned, cameraVars>>

NextSort == SortAndAdd

SpecSort == InitSort /\ [][NextSort]_vars

\* the place of an entry in the order on (transparent, foliage, slab),
\* false before true
LexRank(e) ==
    (IF e.isTransparent THEN 4 ELSE 0) + (IF e.isLeaf THEN 2 ELSE 0)
        + (IF e.isSlab THEN 1 ELSE 0)

Sign(n) == IF n > 0 THEN 1 ELSE IF n < 0 THEN -1 ELSE 0

\* C17: the sort orders the instanced meshes lexicographically on
\* (transparent, foliage, slab), false before true, and its comparator is
\* antisymmetric and transitive on all flag combinations.
C17_SortIsLexicographic ==
    /\ \A i, j \in 1..Len(returned) :
          /\ Sign(SortCompare(returned[i], returned[j]))
                = Sign(LexRank(returned[i]) - LexRank(returned[j]))
          /\ SortCompare(returned[i], returned[j]) = -SortCompare(returned[j], returned[i])
    /\ \A i, j, k \in 1..Len(returned) :
          (SortCompare(returned[i], returned[j]) <= 0
             /\ SortCompare(returned[j], returned[k]) <= 0) =>
              SortCompare(returned[i], returned[k]) <= 0
    /\ pc = "sorted" =>
          /\ Len(scene) = Len(returned)
          /\ \A i \in 1..Len(returned) : \E j \in 1..Len(scene) : scene[j] = returned[i]
          /\ \A i, j \in 1..Len(scene) :
                i < j => LexRank(scene[i]) <= LexRank(scene[j])

C17_Witness ==
    /\ pc = "sorted"
    /\ Len(returned) = 3
    /\ LexRank(returned[1]) = 5 /\ LexRank(returned[2]) = 2 /\ LexRank(returned[3]) = 1
    /\ LexRank(scene[1]) = 1 /\ LexRank(scene[2]) = 2 /\ LexRank(scene[3]) = 5

(***************************************************************************)
(* isPlantBlock called directly, one call after the other                  *)
(***************************************************************************)
MaxChecks == 2

\* nothing of a world load has run
Idle ==
    /\ snapshot = <<>>
    /\ allBlocks = <<>>
    /\ blocks = <<>>
    /\ instanceGroups = <<>>
    /\ loads = <<>>
    /\ templateCache = <<>>
    /\ blockCache = <<>>
    /\ scene = <<>>

PlantCheckTypes ==
    { <<"poppy">>, <<"fern">>, <<"seagrass">>, <<"kelp">>, <<"bamboo">>, <<"vine">>,
      <<"oak", "sapling">>, <<"red", "mushroom">>, <<"wheat">>, <<"dead", "bush">>,
      <<"lily", "pad">>, <<"sunflower">>, <<"wither", "rose">>,
      <<"grass">>, <<"tallgrass">>, <<"stone">>,
      <<"grass", "block">>, <<"grass", "path">>, <<"dirt", "path">>, <<"mycelium">>,
      <<"podzol">>, <<"farmland">>, <<"mushroom", "stem">>,
      <<"brown", "mushroom", "block">> }

InitPlantCheck ==
    /\ Fresh
    /\ Idle
    /\ pc = "classifying"

\* one isPlantBlock(blockType) call
CallIsPlantBlock(t) ==
    /\ pc = "classifying"
    /\ Len(returned) < MaxChecks
    /\ returned' = Append(returned,
           [op |-> "isPlantBlock", type |-> t, result |-> isPlantBlock(t)])
    /\ UNCHANGED <<pc, snapshot, allBlocks, blocks, instanceGroups, loads,
                   templateCache, blockCache, scene, slabGeometryCache, cameraVars>>

NextPlantCheck == \E t \in PlantCheckTypes : CallIsPlantBlock(t)

SpecPlantCheck == InitPlantCheck /\ [][NextPlantCheck]_vars

\* the type contains one of the substrings of the include list
MatchesPlantPattern(t) ==
    \/ \E w \in plantTypes : HasWord(t, w)
    \/ \E p \in plantPairs : HasPair(t, p[1], p[2])

\* C21: isPlantBlock is true for every type that contains a substring of the
\* include list and is not in the exclude list, and false for every type of
\* the exclude list.
C21_PlantPatterns ==
    \A i \in 1..Len(returned) :
        LET t == returned[i].type IN
        /\ t \in excludedBlocks => returned[i].result = FALSE
        /\ (t \notin excludedBlocks /\ MatchesPlantPattern(t)) => returned[i].result = TRUE

(***************************************************************************)
(* Composite emission: lanterns and grindstones                            *)
(***************************************************************************)
\* the names of the light objects of an emitted occurrence
LightsOf(blockGroup) ==
    {blockGroup.children[k].name :
        k \in {j \in 1..Len(blockGroup.children) : blockGroup.children[j].isLight}}

HasPart(blockGroup, part) ==
    \E k \in 1..Len(blockGroup.children) :
        blockGroup.children[k].part = part /\ blockGroup.children[k].isLight

\* C22: a lantern group with n positions is emitted as n lantern nodes, each
\* with its own sharp point light and its own glow light, none shared.
C22_LanternOwnLights ==
    pc = "done" =>
        \A s \in 1..Len(scene) :
            (scene[s].node = "container" /\ scene[s].template.builder = "lantern") =>
                LET bgs == scene[s].blockGroups IN
                /\ Len(bgs) = Len(scene[s].positions)
                /\ \A i \in 1..Len(bgs) :
                      HasPart(bgs[i], "light") /\ HasPart(bgs[i], "glowLight")
                /\ \A i, j \in 1..Len(bgs) :
                      i # j => LightsOf(bgs[i]) \cap LightsOf(bgs[j]) = {}

\* world loads of grindstones of every facing
GrindstoneKinds ==
    { [Blank EXCEPT !.type = <<"grindstone">>, !.y = 64, !.facing = f] :
          f \in {"north", "south", "west", "east"} }
    \cup { [Blank EXCEPT !.type = <<"stone">>, !.y = 64] }

GrindstoneSnapshots == UNION {[1..n -> GrindstoneKinds] : n \in 1..MaxBlocks}

InitGrindstones ==
    /\ Fresh
    /\ pc = "start"
    /\ snapshot \in {Place(s) : s \in GrindstoneSnapshots}
    /\ allBlocks = <<>>
    /\ blocks = <<>>
    /\ instanceGroups = <<>>
    /\ loads = <<>>
    /\ templateCache = <<>>
    /\ blockCache = <<>>
    /\ scene = <<>>

SpecGrindstones == InitGrindstones /\ [][Next]_vars

\* the yaw in degrees of the occurrence emitted at a position, if any: the
\* rotation of its blockGroup (the container and the copied parts add none)
EmittedYaws(pos) ==
    {y \in {0, 90, 180, 270} :
        \E s \in 1..Len(scene) :
            /\ scene[s].node = "container"
            /\ \E i \in 1..Len(scene[s].blockGroups) :
                  /\ scene[s].blockGroups[i].position = pos
                  /\ scene[s].blockGroups[i].yaw = y}

\* C23: an emitted grindstone is yaw-rotated as a whole by the facing of its
\* record (north 180, south 0, west 270, east 90 degrees).
C23_GrindstoneYaw ==
    pc = "done" =>
        \A b \in 1..Len(blocks) :
            (blocks[b].type = <<"grindstone">>
               /\ \E s \in 1..Len(scene) : scene[s].template.builder = "grindstone") =>
                EmittedYaws(<<blocks[b].x, blocks[b].y, blocks[b].z>>)
                    = {FacingYaw(blocks[b].facing)}

(***************************************************************************)
(* World loads of stairs of every facing and half                          *)
(***************************************************************************)
StairFacings == {"north", "south", "west", "east"}
StairHalves == {"bottom", "top"}

StairKinds ==
    { [Blank EXCEPT !.type = <<"spruce", "stairs">>, !.y = 64, !.hasStairData = TRUE,
                    !.sdFacing = f, !.sdHalf = h, !.sdShape = "straight"] :
          f \in StairFacings, h \in StairHalves }

StairSnapshots == UNION {[1..n -> StairKinds] : n \in 1..MaxBlocks}

InitStairs ==
    /\ Fresh
    /\ pc = "start"
    /\ snapshot \in {Place(s) : s \in StairSnapshots}
    /\ allBlocks = <<>>
    /\ blocks = <<>>
    /\ instanceGroups = <<>>
    /\ loads = <<>>
    /\ templateCache = <<>>
    /\ blockCache = <<>>
    /\ scene = <<>>

SpecStairs == InitStairs /\ [][Next]_vars

\* base-facing yaw, then the flip about X for a top stair, then the
\* corrective yaw
StairComposition(facing, half) ==
    LET base == makeRotationY(CASE facing = "north" -> 180 [] facing = "south" -> 0
                                [] facing = "west" -> 270 [] facing = "east" -> 90)
        flip == IF half = "top" THEN makeRotationX(180) ELSE Identity3
        corrective == makeRotationY(IF half = "top" THEN -90 ELSE 90)
    IN  Multiply(Multiply(base, flip), corrective)

\* the emitted instanced meshes of stairs
StairNodes ==
    {s \in 1..Len(scene) :
        scene[s].node = "instanced" /\ scene[s].template.builder = "stair"}

TrapdoorOptions ==
    { [NoOptions EXCEPT !.hasTrapdoorState = TRUE, !.tdOpen = open,
                        !.tdHalf = half, !.tdFacing = facing] :
          open \in {JTrue, JFalse}, half \in {"top", "bottom"},
          facing \in {"north", "south", "west", "east"} }

InitTrapdoors ==
    /\ Fresh
    /\ Idle
    /\ pc = "creating trapdoors"

\* one complete createBlock('spruce_trapdoor', { trapdoorState }) call
CallCreateTrapdoor(o) ==
    /\ pc = "creating trapdoors"
    /\ Len(returned) < MaxBuilds
    /\ \E texOK \in BOOLEAN :
         LET r == createBlock(<<"spruce", "trapdoor">>, o, texOK) IN
            returned' = Append(returned,
                [op |-> "createBlock", type |-> <<"spruce", "trapdoor">>, texOK |-> texOK,
                 status |-> r.status, template |-> r.template])
    /\ UNCHANGED <<pc, snapshot, allBlocks, blocks, instanceGroups, loads,
                   templateCache, blockCache, scene, slabGeometryCache, cameraVars>>

NextTrapdoors == \E o \in TrapdoorOptions : CallCreateTrapdoor(o)

SpecTrapdoors == InitTrapdoors /\ [][NextTrapdoors]_vars

\* the lengths of a box along x, y and z after its rotation by a multiple of
\* 90 degrees about one axis
RotatedSize(mesh) ==
    LET s == mesh.size
        r == mesh.rotation
    IN  IF r[1] % 180 = 90 THEN <<s[1], s[3], s[2]>>
        ELSE IF r[2] % 180 = 90 THEN <<s[3], s[2], s[1]>>
        ELSE IF r[3] % 180 = 90 THEN <<s[2], s[1], s[3]>>
        ELSE s

\* lowest and highest coordinate of the box on an axis, in 1/32 of a block
BoxLow(mesh, axis) == mesh.position[axis] - RotatedSize(mesh)[axis] \div 2
BoxHigh(mesh, axis) == mesh.position[axis] + RotatedSize(mesh)[axis] \div 2

\* C25: a closed trapdoor of thickness 0.1875 has its outer face at y = +0.5
\* (half top) or y = -0.5 (half bottom) and lies inside the unit voxel
\* [-0.5, 0.5] on every axis, for every facing.
C25_ClosedTrapdoorFlush ==
    \A i \in 1..Len(returned) :
        (returned[i].template.builder = "trapdoor"
           /\ returned[i].template.tdOpen = "closed") =>
            LET mesh == TrapdoorMesh(returned[i].template) IN
            /\ mesh.size[2] = 6
            /\ returned[i].template.tdHalf = "top" => BoxHigh(mesh, 2) = 16
            /\ returned[i].template.tdHalf = "bottom" => BoxLow(mesh, 2) = -16
            /\ \A axis \in 1..3 : BoxLow(mesh, axis) >= -16 /\ BoxHigh(mesh, axis) <= 16

(***************************************************************************)
(* World loads of snapshots with malformed records                         *)
(***************************************************************************)
MalformedKinds ==
    { [Blank EXCEPT !.type = <<"stone">>, !.y = 64],
      [Blank EXCEPT !.type = <<"glass">>, !.y = 64],
      [Blank EXCEPT !.type = <<"oak", "log">>, !.y = 65],
      \* a record without a type
      [Blank EXCEPT !.hasType = FALSE, !.y = 64],
      \* a record without a y
      [Blank EXCEPT !.type = <<"stone">>, !.hasY = FALSE] }

MalformedSnapshots == UNION {[1..n -> MalformedKinds] : n \in 1..MaxBlocks}

InitMalformed ==
    /\ Fresh
    /\ pc = "start"
    /\ snapshot \in {Place(s) : s \in MalformedSnapshots}
    /\ allBlocks = <<>>
    /\ blocks = <<>>
    /\ instanceGroups = <<>>
    /\ loads = <<>>
    /\ templateCache = <<>>
    /\ blockCache = <<>>
    /\ scene = <<>>

SpecMalformed == InitMalformed /\ [][Next]_vars

\* a record with a string type and numeric coordinates
WellFormed(b) == b.hasType /\ b.hasY

\* C26: one malformed record of the snapshot does not abort the rest:
\* loadSpawnChunk returns all the valid records, normalized, and drops only
\* the malformed one.
C26_MalformedRecordDropped ==
    (pc # "start" /\ \E i \in 1..Len(snapshot) : WellFormed(snapshot[i])) =>
        allBlocks = ProcessBlocks(SelectSeq(snapshot, WellFormed))

(***************************************************************************)
(* Translations of the emitted instances                                   *)
(***************************************************************************)
\* the translations written for a node of the scene: setPosition of the
\* instance matrices, or position.set of the blockGroups
Translations(node) ==
    IF node.node = "instanced"
    THEN [i \in 1..Len(node.instances) |-> node.instances[i].position]
    ELSE [i \in 1..Len(node.blockGroups) |-> node.blockGroups[i].position]

\* how many times p occurs in a sequence of positions
Occurrences(ps, p) == Cardinality({i \in 1..Len(ps) : ps[i] = p})

\* the positions of the filtered blocks of a group; the map callback has
\* centered their x and z once
CenteredPositions(key) ==
    LET bs == SelectSeq(blocks, LAMBDA b : GroupKey(b) = key)
    IN  [i \in 1..Len(bs) |-> <<bs[i].x, bs[i].y, bs[i].z>>]

\* C27: for every emitted group, the multiset of the translations of its
\* instances is the multiset of the centered positions of its blocks:
\* centering is applied exactly once per block, for every category.
C27_CenteredOnce ==
    pc = "done" =>
        \A s \in 1..Len(scene) :
            LET written == Translations(scene[s])
                centered == CenteredPositions(scene[s].key)
            IN  /\ Len(written) = Len(centered)
                /\ \A i \in 1..Len(written) :
                      Occurrences(written, written[i]) = Occurrences(centered, written[i])

(***************************************************************************)
(* World loads with every outcome of the fetch                             *)
(***************************************************************************)
FetchOutcomes == {"ok", "fetchError", "notOk", "noBlocks"}

InitLoadSpawnChunk ==
    /\ Fresh
    /\ pc = "start"
    /\ snapshot \in {Place(s) : s \in MalformedSnapshots \cup {<<>>}}
    /\ allBlocks = <<>>
    /\ blocks = <<>>
    /\ instanceGroups = <<>>
    /\ loads = <<>>
    /\ templateCache = <<>>
    /\ blockCache = <<>>
    /\ scene = <<>>

\* await worldLoader.loadSpawnChunk(), whatever the fetch does
LoadSpawnChunkAfter(outcome) ==
    /\ pc = "start"
    /\ allBlocks' = loadSpawnChunk(outcome, snapshot)
    /\ pc' = "loaded"
    /\ UNCHANGED <<snapshot, blocks, instanceGroups, loads, templateCache,
                   blockCache, scene, slabGeometryCache, returned, cameraVars>>

NextLoadSpawnChunk ==
    \/ \E outcome \in FetchOutcomes : LoadSpawnChunkAfter(outcome)
    \/ GroupAndIssue
    \/ \E i \in 1..Len(loads) : Settle(i)
    \/ Emit

SpecLoadSpawnChunk == InitLoadSpawnChunk /\ [][NextLoadSpawnChunk]_vars

\* C28: loadSpawnChunk always resolves to a non-empty list of blocks with a
\* string type and numeric x, y, z: the valid blocks of the response, or the
\* generated test chunk on a failed fetch, a body without blocks, an
\* exception while processing, or zero valid blocks.
C28_AlwaysBlocks ==
    pc # "start" =>
        /\ allBlocks # <<>>
        /\ \A i \in 1..Len(allBlocks) :
              /\ allBlocks[i].hasType /\ allBlocks[i].type \in Seq(STRING)
              /\ allBlocks[i].hasY
              /\ allBlocks[i].x \in Int /\ allBlocks[i].y \in Int /\ allBlocks[i].z \in Int
        /\ \/ allBlocks = generateTestChunk
           \/ /\ \A i \in 1..Len(snapshot) : snapshot[i].hasType
              /\ allBlocks = ProcessBlocks(SelectSeq(snapshot, WellFormed))

\* the test chunk is loaded for a snapshot without any valid record
C28_Witness ==
    /\ pc = "loaded"
    /\ Len(snapshot) = 2
    /\ \A i \in 1..Len(snapshot) : snapshot[i].hasType /\ ~snapshot[i].hasY
    /\ allBlocks = generateTestChunk

(***************************************************************************)
(* Camera animation: wheel events and animation frames.  momentum is kept  *)
(* in 1/10000 of a radian, and its decay is rounded towards zero to that   *)
(* grid.                                                                   *)
(***************************************************************************)
MaxMomentum == 300
MaxPending == 3

scrollSensitivity == 100
momentumDecay == 25
slowdownFactor == 50
MomentumThreshold == 1

Abs(n) == IF n < 0 THEN -n ELSE n

\* momentum *= momentumDecay; momentum *= proximityFactor, with the decay and
\* the factor in hundredths
Decayed(m, factor) ==
    IF m >= 0 THEN (m * momentumDecay * factor) \div 10000
    ELSE -(((-m) * momentumDecay * factor) \div 10000)

\* getProximityFactor(): between slowdownFactor (at a point) and 1, in
\* hundredths; the camera angle is not modelled, so either end may come
ProximityFactors == {slowdownFactor, 100}

\* a wheel listener that requests a frame on every event
StartsAnimationAlways(animating) == TRUE

\* the wheel listener's test: if (!isAnimating)
StartsAnimation(animating) == ~animating

InitCamera ==
    /\ Fresh
    /\ Idle
    /\ pc = "rendering"

\* the wheel event listener
Wheel(scrollDirection) ==
    /\ pc = "rendering"
    /\ Abs(momentum + scrollDirection * scrollSensitivity) <= MaxMomentum
    /\ momentum' = momentum + scrollDirection * scrollSensitivity
    /\ IF StartsAnimation(isAnimating)
       THEN /\ pendingFrames < MaxPending
            /\ isAnimating' = TRUE
            /\ pendingFrames' = pendingFrames + 1
       ELSE UNCHANGED <<isAnimating, pendingFrames>>
    /\ UNCHANGED <<pc, snapshot, allBlocks, blocks, instanceGroups, loads,
                   templateCache, blockCache, scene, slabGeometryCache, returned>>

\* the browser runs one requested animateCamera callback
animateCamera ==
    /\ pc = "rendering"
    /\ pendingFrames > 0
    /\ \E proximityFactor \in ProximityFactors :
         IF Abs(momentum) > MomentumThreshold
         THEN /\ momentum' = Decayed(momentum, proximityFactor)
              /\ pendingFrames' = (pendingFrames - 1) + 1
              /\ UNCHANGED isAnimating
         ELSE /\ isAnimating' = FALSE
              /\ momentum' = 0
              /\ pendingFrames' = pendingFrames - 1
    /\ UNCHANGED <<pc, snapshot, allBlocks, blocks, instanceGroups, loads,
                   templateCache, blockCache, scene, slabGeometryCache, returned>>

NextCamera ==
    \/ \E scrollDirection \in {-1, 1} : Wheel(scrollDirection)
    \/ animateCamera

SpecCamera == InitCamera /\ [][NextCamera]_vars

\* C30: whatever the interleaving of wheel events and animation frames, at
\* most one animateCamera callback is pending, and isAnimating is true
\* exactly when one is pending.
C30_OnePendingFrame ==
    /\ pendingFrames <= 1
    /\ isAnimating <=> pendingFrames = 1

\* a wheel event arrived while a frame was pending, after one frame had run
C30_Witness ==
    /\ isAnimating
    /\ pendingFrames = 1
    /\ momentum = 125

====
